---- MODULE Spec2Model ----
(***************************************************************************)
(* State-machine model of claude-memory: the persisted store (SQLite file  *)
(* shared by independent processes), the schema manager run by db::open,   *)
(* the session/note store, the ingestion orchestrator and the search       *)
(* engine.  Every SQL statement the code issues outside a transaction is   *)
(* one atomic step (SQLite autocommit); processes interleave between       *)
(* statements.                                                             *)
(***************************************************************************)
EXTENDS Integers, Sequences, FiniteSets, Bags, TLC

\* ---------------------------------------------------------------- bounds
NumProcs == 2
MaxSessions == 2
MaxNotes == 1

MaxServerNotes == 2

\* ------------------------------------------------------ program constants
CURRENT_VERSION == 1

Procs == 1..NumProcs

VARIABLES
    objects,      \* base tables and plain indexes that exist in the store
    versionRows,  \* rows of schema_version, a bag of integers
    sessions,     \* rows of sessions, position = rowid
    notes,        \* rows of notes, position = rowid
    shadowGen,    \* per shadow table: "none", "v0" (legacy) or "v1"
    shadowIdx,    \* per shadow table: bag of <<rowid, indexed text>>
    triggers,     \* per trigger name: "none", "v0" (legacy) or "v1"
    pc,           \* per process: position in its top-level operation
    ix,           \* per process: statement index inside the current batch
    task,         \* per process: the top-level operation it runs
    arg,          \* per process: the operation's input
    meta,         \* per process: SessionMetadata being ingested
    err,          \* per process: error the operation returned ("none" = Ok)
    out,          \* per process: value the operation returned
    lastFail      \* where the most recent interrupted open stopped

store == <<objects, versionRows, sessions, notes, shadowGen, shadowIdx, triggers>>
vars == <<objects, versionRows, sessions, notes, shadowGen, shadowIdx, triggers,
          pc, ix, task, arg, meta, err, out, lastFail>>

\* ------------------------------------------------------- generic helpers
Range(s) == {s[i] : i \in 1..Len(s)}

Max(S) == CHOOSE x \in S : \A y \in S : y <= x

\* An absent string-valued field (Option<String> of an identifier).
NoVal == "null"

\* Any other optional value: None, or Some(x).
None == <<>>

Some(x) == <<x>>

\* ------------------------------------------------------- schema objects
BaseStmts ==
    << "schema_version", "sessions", "notes",
       "idx_sessions_started_at", "idx_sessions_project_dir",
       "idx_notes_session_id", "idx_notes_created_at" >>

ShadowTables == {"sessions_fts", "notes_fts"}

TriggerNames == {"sessions_ai", "sessions_ad", "sessions_au",
                 "notes_ai", "notes_ad", "notes_au"}

\* The statements of migrate_v0_to_v1, one per SQL statement, in order.
MigrationStmts ==
    << [op |-> "drop_trigger", obj |-> "sessions_ai"],
       [op |-> "drop_trigger", obj |-> "sessions_ad"],
       [op |-> "drop_trigger", obj |-> "sessions_au"],
       [op |-> "drop_table", obj |-> "sessions_fts"],
       [op |-> "drop_trigger", obj |-> "notes_ai"],
       [op |-> "drop_trigger", obj |-> "notes_ad"],
       [op |-> "drop_trigger", obj |-> "notes_au"],
       [op |-> "drop_table", obj |-> "notes_fts"],
       [op |-> "create_table", obj |-> "sessions_fts"],
       [op |-> "create_trigger", obj |-> "sessions_ai"],
       [op |-> "create_trigger", obj |-> "sessions_ad"],
       [op |-> "create_trigger", obj |-> "sessions_au"],
       [op |-> "create_table", obj |-> "notes_fts"],
       [op |-> "create_trigger", obj |-> "notes_ai"],
       [op |-> "create_trigger", obj |-> "notes_ad"],
       [op |-> "create_trigger", obj |-> "notes_au"],
       [op |-> "rebuild", obj |-> "sessions_fts"],
       [op |-> "rebuild", obj |-> "notes_fts"] >>

\* Columns a shadow table of generation gen mirrors: the legacy sessions
\* index has no files_read column.
IndexedText(tbl, row, gen) ==
    IF tbl = "sessions_fts"
    THEN IF gen = "v1" THEN <<row.user_prompts, row.files_read>>
                       ELSE <<row.user_prompts>>
    ELSE <<row.content, row.tags>>

BaseRows(tbl) == IF tbl = "sessions_fts" THEN sessions ELSE notes

RebuildSkipped(tbl, gen) == shadowIdx[tbl]

\* INSERT INTO t_fts(t_fts) VALUES('rebuild'): the index is emptied and
\* refilled from the content table.
RebuiltIndex(tbl, gen) ==
    LET rows == BaseRows(tbl)
    IN SetToBag({<<i, IndexedText(tbl, rows[i], gen)>> : i \in 1..Len(rows)})


\* ------------------------------------------------------- store contents
SessionIds == {"s1", "s2"}

\* uuid::Uuid::new_v4(): identifiers no stored row and no other process holds.
Uuids == {"u1"}

\* Texts are sequences of one-character strings.
TextA == <<"a">>
TextAB == <<"a", " ", "b">>
TextC == <<"c", "/", "d">>

SessionRow(id, started_at, prompts, files) ==
    [id |-> id, started_at |-> started_at, user_prompts |-> prompts,
     files_read |-> files]

\* tags is the list the tags column holds as JSON text; created_at is the
\* second datetime('now') gave the INSERT.
NoteRow(id, content, tags, created_at) ==
    [id |-> id, content |-> content, tags |-> tags, created_at |-> created_at]

StoredIds == {sessions[i].id : i \in 1..Len(sessions)}

\* ---------------------------------------------------- SQL statement model
\* AFTER INSERT trigger t_ai on base table t: the written shadow entry, or
\* the error the statement ends with (the whole INSERT is then rolled back).
TriggerEffect(tbl, rowid, row) ==
    LET trg == triggers[IF tbl = "sessions_fts" THEN "sessions_ai" ELSE "notes_ai"]
        gen == shadowGen[tbl]
    IN  IF trg = "none" THEN [err |-> "none", add |-> EmptyBag]
        ELSE IF gen = "none" THEN [err |-> "no_table", add |-> EmptyBag]
        ELSE IF trg = "v1" /\ gen = "v0" /\ tbl = "sessions_fts"
             THEN [err |-> "no_column", add |-> EmptyBag]
        ELSE [err |-> "none",
              add |-> SetToBag({<<rowid, IndexedText(tbl, row, trg)>>})]

SqlInsertSessionNoKey(row) ==
    LET eff == TriggerEffect("sessions_fts", Len(sessions) + 1, row)
    IN  IF eff.err # "none"
        THEN [err |-> eff.err, rows |-> sessions, idx |-> shadowIdx]
        ELSE [err |-> "none", rows |-> Append(sessions, row),
              idx |-> [shadowIdx EXCEPT !["sessions_fts"] = @ (+) eff.add]]

SqlInsertSessionReplace(row) ==
    LET kept == SelectSeq(sessions, LAMBDA r : r.id # row.id)
    IN  [err |-> "none", rows |-> Append(kept, row), idx |-> shadowIdx]

SqlInsertSessionIgnore(row) ==
    IF row.id \in StoredIds
    THEN [err |-> "none", rows |-> sessions, idx |-> shadowIdx]
    ELSE SqlInsertSessionNoKey(row)

\* INSERT INTO sessions (...): primary key check, then the trigger.
SqlInsertSession(row) ==
    LET eff == TriggerEffect("sessions_fts", Len(sessions) + 1, row)
    IN  IF row.id \in StoredIds
        THEN [err |-> "unique", rows |-> sessions, idx |-> shadowIdx]
        ELSE IF eff.err # "none"
        THEN [err |-> "trigger_" \o eff.err, rows |-> sessions, idx |-> shadowIdx]
        ELSE [err |-> "none", rows |-> Append(sessions, row),
              idx |-> [shadowIdx EXCEPT !["sessions_fts"] = @ (+) eff.add]]

\* INSERT INTO notes (...): the id is a fresh uuid, so no key conflict.
SqlInsertNote(row) ==
    LET eff == TriggerEffect("notes_fts", Len(notes) + 1, row)
    IN  IF eff.err # "none"
        THEN [err |-> "trigger_" \o eff.err, rows |-> notes, idx |-> shadowIdx]
        ELSE [err |-> "none", rows |-> Append(notes, row),
              idx |-> [shadowIdx EXCEPT !["notes_fts"] = @ (+) eff.add]]

VersionBeforeMigration == CURRENT_VERSION - 1

\* SELECT version FROM schema_version ORDER BY version DESC LIMIT 1, with
\* .ok() turning "no such table" and "no rows" into None, read as 0.
get_schema_version ==
    IF "schema_version" \in objects /\ BagToSet(versionRows) # {}
    THEN Max(BagToSet(versionRows))
    ELSE 0

\* SELECT COUNT(*) > 0 FROM sessions WHERE id = ?
session_exists(sid) == \E i \in 1..Len(sessions) : sessions[i].id = sid

\* ------------------------------------------------------- search engine
Lowercase ==
    <<"a", "b", "c", "d", "e", "f", "g", "h", "i", "j", "k", "l", "m", "n",
       "o", "p", "q", "r", "s", "t", "u", "v", "w", "x", "y", "z">>

Uppercase ==
    <<"A", "B", "C", "D", "E", "F", "G", "H", "I", "J", "K", "L", "M", "N",
       "O", "P", "Q", "R", "S", "T", "U", "V", "W", "X", "Y", "Z">>

LowerChars == Range(Lowercase)

UpperChars == Range(Uppercase)

\* char::is_alphanumeric, on the characters the model uses.
is_alphanumeric(c) == c \in LowerChars \cup UpperChars \cup {"1"}

\* char::is_whitespace
is_whitespace(c) == c \in {" ", "\t"}

\* str::split_whitespace: the maximal runs of non-whitespace characters.
RECURSIVE SplitWs(_, _, _)
SplitWs(s, cur, acc) ==
    IF s = <<>> THEN (IF cur = <<>> THEN acc ELSE Append(acc, cur))
    ELSE IF is_whitespace(Head(s))
         THEN SplitWs(Tail(s), <<>>, IF cur = <<>> THEN acc ELSE Append(acc, cur))
         ELSE SplitWs(Tail(s), Append(cur, Head(s)), acc)

split_whitespace(s) == SplitWs(s, <<>>, <<>>)

\* [&str]::join
RECURSIVE join(_, _)
join(words, sep) ==
    IF words = <<>> THEN <<>>
    ELSE IF Len(words) = 1 THEN words[1]
    ELSE words[1] \o sep \o join(Tail(words), sep)

RECURSIVE SanitizeCharsDropQuotes(_, _)
SanitizeCharsDropQuotes(q, in_quotes) ==
    IF q = <<>> THEN <<>>
    ELSE LET c == Head(q)
         IN  IF c = "\""
             THEN SanitizeCharsDropQuotes(Tail(q), ~in_quotes)
             ELSE IF in_quotes \/ is_alphanumeric(c) \/ is_whitespace(c) \/ c = "_"
                  THEN <<c>> \o SanitizeCharsDropQuotes(Tail(q), in_quotes)
                  ELSE <<" ">> \o SanitizeCharsDropQuotes(Tail(q), in_quotes)

\* The character loop of sanitize_fts_query.
RECURSIVE SanitizeChars(_, _)
SanitizeChars(q, in_quotes) ==
    IF q = <<>> THEN <<>>
    ELSE LET c == Head(q)
         IN  IF c = "\""
             THEN <<c>> \o SanitizeChars(Tail(q), ~in_quotes)
             ELSE IF in_quotes \/ is_alphanumeric(c) \/ is_whitespace(c) \/ c = "_"
                  THEN <<c>> \o SanitizeChars(Tail(q), in_quotes)
                  ELSE <<" ">> \o SanitizeChars(Tail(q), in_quotes)

SanitizeNoCollapse(query) == SanitizeChars(query, FALSE)

sanitize_fts_query(query) ==
    join(split_whitespace(SanitizeChars(query, FALSE)), <<" ">>)

OpAND == <<"A", "N", "D">>
OpOR == <<"O", "R">>
OpNOT == <<"N", "O", "T">>
OpNEAR == <<"N", "E", "A", "R">>

HasOperatorsNoNear(query) ==
    \E w \in Range(split_whitespace(query)) : w \in {OpAND, OpOR, OpNOT}

has_explicit_operators(query) ==
    \E w \in Range(split_whitespace(query)) : w \in {OpAND, OpOR, OpNOT, OpNEAR}

\* None, or Some(the OR-joined query).
build_or_fallback(sanitized_query) ==
    IF has_explicit_operators(sanitized_query) THEN None
    ELSE LET terms == split_whitespace(sanitized_query)
         IN  IF Len(terms) < 2 THEN None
             ELSE Some(join(terms, <<" ">> \o OpOR \o <<" ">>))

\* ---- the index's tokenizer: tokenize='porter unicode61'
\* Case folding of unicode61.
Fold(c) ==
    IF c \in UpperChars
    THEN Lowercase[CHOOSE i \in 1..Len(Uppercase) : Uppercase[i] = c]
    ELSE c

EndsWith(t, suf) ==
    Len(t) >= Len(suf) /\ SubSeq(t, Len(t) - Len(suf) + 1, Len(t)) = suf

\* Porter step 1a (plurals); tokens shorter than three characters pass
\* through.  The later steps leave the words of the model unchanged.
Stem(t) ==
    IF Len(t) < 3 THEN t
    ELSE IF EndsWith(t, <<"s", "s", "e", "s">>) THEN SubSeq(t, 1, Len(t) - 2)
    ELSE IF EndsWith(t, <<"i", "e", "s">>) THEN SubSeq(t, 1, Len(t) - 2)
    ELSE IF EndsWith(t, <<"s", "s">>) THEN t
    ELSE IF EndsWith(t, <<"s">>) THEN SubSeq(t, 1, Len(t) - 1)
    ELSE t

\* unicode61: tokens are the maximal runs of alphanumerics, case-folded.
RECURSIVE TokenizeFrom(_, _, _)
TokenizeFrom(s, cur, acc) ==
    IF s = <<>> THEN (IF cur = <<>> THEN acc ELSE Append(acc, Stem(cur)))
    ELSE IF is_alphanumeric(Head(s))
         THEN TokenizeFrom(Tail(s), Append(cur, Fold(Head(s))), acc)
         ELSE TokenizeFrom(Tail(s), <<>>,
                           IF cur = <<>> THEN acc ELSE Append(acc, Stem(cur)))

Tokenize(s) == TokenizeFrom(s, <<>>, <<>>)

\* Tokens of a column holding a JSON array of strings: the brackets, quotes
\* and commas separate tokens.
RECURSIVE ColumnTokens(_)
ColumnTokens(col) ==
    IF col = <<>> THEN <<>> ELSE Tokenize(Head(col)) \o ColumnTokens(Tail(col))

\* ---- the index's query syntax (fts5 expression lexer and grammar)
\* Lexer: quoted strings, barewords, the keywords AND OR NOT; anything else
\* is a syntax error.  Result: [ok, toks], a token being [k, v].
RECURSIVE Lex(_, _)
Lex(s, acc) ==
    IF s = <<>> THEN [ok |-> TRUE, toks |-> acc]
    ELSE LET c == Head(s)
         IN  IF c \in {" ", "\t"} THEN Lex(Tail(s), acc)
             ELSE IF c = "\""
             THEN LET rest == Tail(s)
                      closes == {i \in 1..Len(rest) : rest[i] = "\""}
                  IN  IF closes = {} THEN [ok |-> FALSE, toks |-> acc]
                      ELSE LET j == CHOOSE i \in closes : \A k \in closes : i <= k
                           IN  Lex(SubSeq(rest, j + 1, Len(rest)),
                                   Append(acc, [k |-> "STR", v |-> SubSeq(rest, 1, j - 1)]))
             ELSE IF is_alphanumeric(c) \/ c = "_"
             THEN LET stops == {i \in 1..Len(s) : ~(is_alphanumeric(s[i]) \/ s[i] = "_")}
                      n == IF stops = {} THEN Len(s)
                           ELSE (CHOOSE i \in stops : \A k \in stops : i <= k) - 1
                      w == SubSeq(s, 1, n)
                      kind == CASE w = OpAND -> "AND" [] w = OpOR -> "OR"
                                [] w = OpNOT -> "NOT" [] OTHER -> "STR"
                  IN  Lex(SubSeq(s, n + 1, Len(s)), Append(acc, [k |-> kind, v |-> w]))
             ELSE [ok |-> FALSE, toks |-> acc]

\* The token sequence cut at every token of kind k.
RECURSIVE SplitOn(_, _, _, _)
SplitOn(toks, k, cur, acc) ==
    IF toks = <<>> THEN Append(acc, cur)
    ELSE IF Head(toks).k = k
         THEN SplitOn(Tail(toks), k, <<>>, Append(acc, cur))
         ELSE SplitOn(Tail(toks), k, Append(cur, Head(toks)), acc)

Parts(toks, k) == SplitOn(toks, k, <<>>, <<>>)

\* Grammar: OR binds loosest, then AND, then NOT; juxtaposed phrases are an
\* implicit AND.  Every operand must be a non-empty phrase list.
WellFormed(toks) ==
    \A o \in Range(Parts(toks, "OR")) :
        \A a \in Range(Parts(o, "AND")) :
            \A n \in Range(Parts(a, "NOT")) : n # <<>>

\* A phrase matches a column when its terms occur there consecutively.
PhraseIn(terms, col) ==
    /\ terms # <<>>
    /\ \E i \in 1..(Len(col) - Len(terms) + 1) :
           SubSeq(col, i, i + Len(terms) - 1) = terms

\* cols: the token sequences of one shadow entry's columns.
PhraseMatches(tok, cols) ==
    \E c \in 1..Len(cols) : PhraseIn(Tokenize(tok.v), cols[c])

ListMatches(list, cols) == \A i \in 1..Len(list) : PhraseMatches(list[i], cols)

NotMatches(toks, cols) ==
    LET ps == Parts(toks, "NOT")
    IN  /\ ListMatches(ps[1], cols)
        /\ \A i \in 2..Len(ps) : ~ListMatches(ps[i], cols)

AndMatches(toks, cols) ==
    \A a \in Range(Parts(toks, "AND")) : NotMatches(a, cols)

ExprMatches(toks, cols) ==
    \E o \in Range(Parts(toks, "OR")) : AndMatches(o, cols)

EntryColumns(entry) == [c \in 1..Len(entry[2]) |-> ColumnTokens(entry[2][c])]

\* Rowids of sessions_fts entries matching the expression, each as often as
\* the index holds it, joined to sessions; ascending rowid stands for rank.
RECURSIVE MatchingRows(_, _)
MatchingRows(toks, rowid) ==
    IF rowid > Len(sessions) THEN <<>>
    ELSE LET hits == {e \in BagToSet(shadowIdx["sessions_fts"]) :
                         e[1] = rowid /\ ExprMatches(toks, EntryColumns(e))}
             n == BagCardinality([e \in hits |-> CopiesIn(e, shadowIdx["sessions_fts"])])
         IN  [i \in 1..n |-> sessions[rowid]] \o MatchingRows(toks, rowid + 1)

Take(s, n) == IF Len(s) <= n THEN s ELSE SubSeq(s, 1, n)

\* fts_match: [err, rows].
fts_match(match_expr, limit) ==
    LET lexed == Lex(match_expr, <<>>)
    IN  IF shadowGen["sessions_fts"] = "none"
        THEN [err |-> "no_such_table", rows |-> <<>>]
        ELSE IF ~lexed.ok \/ lexed.toks = <<>> \/ ~WellFormed(lexed.toks)
        THEN [err |-> "fts_syntax", rows |-> <<>>]
        ELSE [err |-> "none", rows |-> Take(MatchingRows(lexed.toks, 1), limit)]

\* ---------------------------------------------------- process positions
OpenPcs == {"base", "getver", "migrate", "delver", "insver"}

\* Positions of a process whose open call returned Ok(conn).
ConnPcs == {"check", "insert", "note", "search", "search_or", "done"}

\* Where a task continues once db::open has returned the connection.
AfterOpen(t) ==
    CASE t = "open" -> "done"
      [] t \in {"ingest_claude", "ingest_copilot"} -> "check"
      [] t = "insert" -> "insert"
      [] t = "note" -> "note"
      [] t = "search" -> "search"

\* SessionMetadata::default().
NoMeta ==
    [session_id |-> "", project_dir |-> "", git_branch |-> None, model |-> None,
     first_timestamp |-> None, last_timestamp |-> None, duration_seconds |-> None,
     user_prompts |-> <<>>, files_modified |-> {}, files_read |-> {},
     commands_run |-> <<>>, git_commits |-> <<>>, tool_counts |-> EmptyBag,
     total_input_tokens |-> 0, total_output_tokens |-> 0]

Goto(p, where, i) ==
    /\ pc' = [pc EXCEPT ![p] = where]
    /\ ix' = [ix EXCEPT ![p] = i]

\* The open call returns Err(reason): the connection is dropped.
FailWith(p, reason) ==
    /\ Goto(p, "failed", 0)
    /\ err' = [err EXCEPT ![p] = reason]

\* ------------------------------------------------------ schema manager
\* ensure_schema, first batch: CREATE TABLE / INDEX IF NOT EXISTS.
CreateBase(p) ==
    /\ pc[p] = "base"
    /\ objects' = objects \cup {BaseStmts[ix[p]]}
    /\ IF ix[p] < Len(BaseStmts)
       THEN Goto(p, "base", ix[p] + 1)
       ELSE Goto(p, "getver", 0)
    /\ UNCHANGED <<versionRows, sessions, notes, shadowGen, shadowIdx, triggers,
                   task, arg, meta, err, out, lastFail>>

\* ensure_schema reads the version and run_migrations picks the steps.
GetVersion(p) ==
    /\ pc[p] = "getver"
    /\ LET version == get_schema_version
       IN  IF version < CURRENT_VERSION
           THEN IF version < 1
                THEN Goto(p, "migrate", 1)
                ELSE Goto(p, "delver", 0)
           ELSE Goto(p, AfterOpen(task[p]), 0)
    /\ UNCHANGED <<store, task, arg, meta, err, out, lastFail>>

MigStmt(p) == MigrationStmts[ix[p]]

AfterMigStmt(p) ==
    /\ IF ix[p] < Len(MigrationStmts)
       THEN Goto(p, "migrate", ix[p] + 1)
       ELSE Goto(p, "delver", 0)
    /\ UNCHANGED err

\* DROP TRIGGER IF EXISTS t
DropTrigger(p) ==
    /\ pc[p] = "migrate" /\ MigStmt(p).op = "drop_trigger"
    /\ triggers' = [triggers EXCEPT ![MigStmt(p).obj] = "none"]
    /\ AfterMigStmt(p)
    /\ UNCHANGED <<objects, versionRows, sessions, notes, shadowGen, shadowIdx,
                   task, arg, meta, out, lastFail>>

DropShadowTableSkipped(p) ==
    /\ pc[p] = "migrate" /\ MigStmt(p).op = "drop_table"
    /\ AfterMigStmt(p)
    /\ UNCHANGED <<store, task, arg, meta, out, lastFail>>

\* DROP TABLE IF EXISTS t_fts: the table goes with its index data.
DropShadowTable(p) ==
    /\ pc[p] = "migrate" /\ MigStmt(p).op = "drop_table"
    /\ shadowGen' = [shadowGen EXCEPT ![MigStmt(p).obj] = "none"]
    /\ shadowIdx' = [shadowIdx EXCEPT ![MigStmt(p).obj] = EmptyBag]
    /\ AfterMigStmt(p)
    /\ UNCHANGED <<objects, versionRows, sessions, notes, triggers,
                   task, arg, meta, out, lastFail>>

\* CREATE VIRTUAL TABLE t_fts USING fts5(...): no IF NOT EXISTS.
CreateShadowTable(p) ==
    /\ pc[p] = "migrate" /\ MigStmt(p).op = "create_table"
    /\ IF shadowGen[MigStmt(p).obj] # "none"
       THEN /\ FailWith(p, "exists")
            /\ UNCHANGED <<shadowGen, shadowIdx>>
       ELSE /\ shadowGen' = [shadowGen EXCEPT ![MigStmt(p).obj] = "v1"]
            /\ shadowIdx' = [shadowIdx EXCEPT ![MigStmt(p).obj] = EmptyBag]
            /\ AfterMigStmt(p)
    /\ UNCHANGED <<objects, versionRows, sessions, notes, triggers,
                   task, arg, meta, out, lastFail>>

\* CREATE TRIGGER t AFTER ... ON base: no IF NOT EXISTS.
CreateTrigger(p) ==
    /\ pc[p] = "migrate" /\ MigStmt(p).op = "create_trigger"
    /\ IF triggers[MigStmt(p).obj] # "none"
       THEN /\ FailWith(p, "exists")
            /\ UNCHANGED triggers
       ELSE /\ triggers' = [triggers EXCEPT ![MigStmt(p).obj] = "v1"]
            /\ AfterMigStmt(p)
    /\ UNCHANGED <<objects, versionRows, sessions, notes, shadowGen, shadowIdx,
                   task, arg, meta, out, lastFail>>

\* INSERT INTO t_fts(t_fts) VALUES('rebuild')
Rebuild(p) ==
    /\ pc[p] = "migrate" /\ MigStmt(p).op = "rebuild"
    /\ LET tbl == MigStmt(p).obj
       IN  IF shadowGen[tbl] = "none"
           THEN /\ FailWith(p, "no_such_table")
                /\ UNCHANGED shadowIdx
           ELSE /\ shadowIdx' = [shadowIdx EXCEPT
                                   ![tbl] = RebuiltIndex(tbl, shadowGen[tbl])]
                /\ AfterMigStmt(p)
    /\ UNCHANGED <<objects, versionRows, sessions, notes, shadowGen, triggers,
                   task, arg, meta, out, lastFail>>

\* set_schema_version, first statement: DELETE FROM schema_version
DeleteVersion(p) ==
    /\ pc[p] = "delver"
    /\ versionRows' = EmptyBag
    /\ Goto(p, "insver", 0)
    /\ UNCHANGED <<objects, sessions, notes, shadowGen, shadowIdx, triggers,
                   task, arg, meta, err, out, lastFail>>

\* set_schema_version, second statement: INSERT INTO schema_version
InsertVersion(p) ==
    /\ pc[p] = "insver"
    /\ versionRows' = versionRows (+) SetToBag({CURRENT_VERSION})
    /\ Goto(p, AfterOpen(task[p]), 0)
    /\ UNCHANGED <<objects, sessions, notes, shadowGen, shadowIdx, triggers,
                   task, arg, meta, err, out, lastFail>>

\* A statement of the open call fails for a reason outside the program (I/O
\* error, the process is killed): the statements before it stay committed.
Interrupt(p) ==
    /\ pc[p] \in OpenPcs
    /\ FailWith(p, "interrupted")
    /\ lastFail' = pc[p]
    /\ UNCHANGED <<store, task, arg, meta, out>>

\* --------------------------------------------------- transcript parsers
MAX_COMMANDS == 50

MAX_COMMAND_LEN == 200

MAX_PROMPT_LEN == 2000

\* The length extract_commit_message passes to truncate.
CommitSnippetLen == 100

\* A character whose UTF-8 encoding takes two bytes; every other character
\* of the model takes one.
EAcute == "U+00E9"

len_utf8(c) == IF c = EAcute THEN 2 ELSE 1

Wide(s) == {i \in 1..Len(s) : len_utf8(s[i]) = 2}

\* str::len: the length of s in bytes.
ByteLen(s) == Len(s) + Cardinality(Wide(s))

\* The number of whole characters of s in its first n bytes.
CharsWithin(s, n) ==
    LET w == Wide(s)
        last == IF n < Len(s) THEN n ELSE Len(s)
    IN  Cardinality({k \in 1..last : k + Cardinality({i \in w : i <= k}) <= n})

\* str::is_char_boundary(n), for n <= s.len().
is_char_boundary(s, n) == ByteLen(SubSeq(s, 1, CharsWithin(s, n))) = n

Ellipsis == <<".", ".", ".">>

\* &s[..max_len] panics when max_len falls inside a character.
truncate_panics(s, max_len) ==
    ByteLen(s) > max_len /\ ~is_char_boundary(s, max_len)

\* truncate, when it returns.
truncate(s, max_len) ==
    IF ByteLen(s) <= max_len THEN s
    ELSE SubSeq(s, 1, CharsWithin(s, max_len)) \o Ellipsis

\* str::find: the position of the first occurrence of pat, 0 when none.
find(s, pat) ==
    LET hits == {i \in 1..(Len(s) - Len(pat) + 1) :
                    SubSeq(s, i, i + Len(pat) - 1) = pat}
    IN  IF hits = {} THEN 0 ELSE CHOOSE i \in hits : \A j \in hits : i <= j

contains(s, pat) == find(s, pat) # 0

RECURSIVE trim_start(_)
trim_start(s) ==
    IF s # <<>> /\ is_whitespace(Head(s)) THEN trim_start(Tail(s)) ELSE s

RECURSIVE trim_end(_)
trim_end(s) ==
    IF s # <<>> /\ is_whitespace(s[Len(s)])
    THEN trim_end(SubSeq(s, 1, Len(s) - 1))
    ELSE s

trim(s) == trim_end(trim_start(s))

DashM == <<"-", "m", " ">>

GitCommit == <<"g", "i", "t", " ", "c", "o", "m", "m", "i", "t">>

QuoteChars == {"\"", "'"}

\* The text after the first "-m ", trimmed.
CommitRest(cmd) == trim(SubSeq(cmd, find(cmd, DashM) + 3, Len(cmd)))

CommitQuoted(cmd) ==
    find(cmd, DashM) # 0 /\ CommitRest(cmd) # <<>>
        /\ Head(CommitRest(cmd)) \in QuoteChars

extract_commit_message_panics(cmd) ==
    /\ find(cmd, DashM) # 0
    /\ ~CommitQuoted(cmd)
    /\ truncate_panics(CommitRest(cmd), CommitSnippetLen)

\* extract_commit_message, when it returns: None, or Some(message).
extract_commit_message(cmd) ==
    IF find(cmd, DashM) = 0 THEN None
    ELSE LET rest == CommitRest(cmd)
         IN  IF CommitQuoted(cmd)
             THEN LET end == find(Tail(rest), <<Head(rest)>>)
                  IN  IF end = 0 THEN None ELSE Some(SubSeq(rest, 2, end))
             ELSE Some(truncate(rest, CommitSnippetLen))

\* One decoded line of a streaming transcript: a JSON value with the keys
\* the parser reads; NoVal marks a key that is absent or not a string.
\* content is the user message's content: None, Some(text) for a string, or
\* Blocks(items) for an array; read is the file_path of a Read tool
\* invocation and tools the further tool_use items of an assistant message.
Event(sid, type, content, read) ==
    [sessionId |-> sid, cwd |-> NoVal, gitBranch |-> NoVal, timestamp |-> NoVal,
     type |-> type, content |-> content, read |-> read,
     model |-> NoVal, usage |-> None, tools |-> <<>>]

\* The event with its cwd and gitBranch keys set.
Located(ev, cwd, branch) == [ev EXCEPT !.cwd = cwd, !.gitBranch = branch]

\* The event with its timestamp key set.
Stamped(ev, ts) == [ev EXCEPT !.timestamp = ts]

NoEvent == Event(NoVal, "none", None, None)

\* An array-valued content: items of a type, each with an optional text.
Blocks(items) == <<"array", items>>

Block(type, text) == [type |-> type, text |-> text]

\* A tool_use item: the tool's name and its file_path or command (None
\* when the input has none).
ToolUse(name, input) == [name |-> name, input |-> input]

\* An assistant event with a model, a usage object and tool_use items.
Assistant(sid, model, usage, tools) ==
    [Event(sid, "assistant", None, None) EXCEPT
        !.model = model, !.usage = usage, !.tools = tools]

Usage(input, output, cache_create, cache_read) ==
    Some([input_tokens |-> input, output_tokens |-> output,
          cache_creation_input_tokens |-> cache_create,
          cache_read_input_tokens |-> cache_read])

\* One line of the transcript file: "json" decodes to ev, "blank" is empty
\* or whitespace, "corrupt" is text that is not JSON, "invalid_utf8" holds
\* bytes that BufRead::lines cannot return as a String.
JsonLine(ev) == [kind |-> "json", ev |-> ev]

BlankLine == [kind |-> "blank", ev |-> NoEvent]

CorruptLine == [kind |-> "corrupt", ev |-> NoEvent]

UndecodableLine == [kind |-> "invalid_utf8", ev |-> NoEvent]

\* !text.is_empty() && !text.starts_with('<')
IsPrompt(text) == text # <<>> /\ Head(text) # "<"

\* The texts extract_user_message passes to truncate, in order: the string
\* content, or the text of each array item that is not a tool_result.
RECURSIVE BlockTexts(_)
BlockTexts(items) ==
    IF items = <<>> THEN <<>>
    ELSE LET item == Head(items)
         IN  (IF item.type # "tool_result" /\ item.text # None
                    /\ IsPrompt(item.text[1])
              THEN <<item.text[1]>> ELSE <<>>)
             \o BlockTexts(Tail(items))

PromptTexts(ev) ==
    IF ev.content = None THEN <<>>
    ELSE IF Len(ev.content) = 1
    THEN (IF IsPrompt(ev.content[1]) THEN <<ev.content[1]>> ELSE <<>>)
    ELSE BlockTexts(ev.content[2])

extract_user_message_panics(ev) ==
    \E i \in 1..Len(PromptTexts(ev)) :
        truncate_panics(PromptTexts(ev)[i], MAX_PROMPT_LEN)

\* extract_user_message, when it returns.
extract_user_message(ev, m) ==
    LET texts == PromptTexts(ev)
    IN  [m EXCEPT !.user_prompts =
            @ \o [i \in 1..Len(texts) |-> truncate(texts[i], MAX_PROMPT_LEN)]]

\* The tool_use items of an assistant message, in order.
ToolItems(ev) ==
    (IF ev.read = None THEN <<>> ELSE <<ToolUse("Read", ev.read)>>) \o ev.tools

\* The "Bash" arm: the command list and the commit messages.  The commands
\* seen so far are the entries of commands_run.
BashArm(m, cmd) ==
    LET truncated == truncate(cmd, MAX_COMMAND_LEN)
        m1 == IF Len(m.commands_run) < MAX_COMMANDS
                    /\ truncated \notin Range(m.commands_run)
              THEN [m EXCEPT !.commands_run = Append(@, truncated)]
              ELSE m
    IN  IF contains(cmd, GitCommit) /\ extract_commit_message(cmd) # None
        THEN [m1 EXCEPT !.git_commits = Append(@, extract_commit_message(cmd)[1])]
        ELSE m1

BashArmPanics(cmd) ==
    \/ truncate_panics(cmd, MAX_COMMAND_LEN)
    \/ contains(cmd, GitCommit) /\ extract_commit_message_panics(cmd)

\* Body of the loop over the content array, for one tool_use item.
ToolArm(m, item) ==
    LET m1 == [m EXCEPT !.tool_counts = @ (+) SetToBag({item.name})]
    IN  IF item.input = None THEN m1
        ELSE CASE item.name \in {"Write", "Edit"} ->
                    [m1 EXCEPT !.files_modified = @ \cup {item.input[1]}]
               [] item.name = "Read" ->
                    [m1 EXCEPT !.files_read = @ \cup {item.input[1]}]
               [] item.name = "Bash" -> BashArm(m1, item.input[1])
               [] OTHER -> m1

RECURSIVE FoldTools(_, _)
\* The loop keeps commands_run within MAX_COMMANDS; testing it after each
\* item has every item applied before the next is looked at.
FoldTools(m, items) ==
    IF items = <<>> THEN m
    ELSE LET next == ToolArm(m, Head(items))
         IN  IF Len(next.commands_run) <= MAX_COMMANDS
             THEN FoldTools(next, Tail(items))
             ELSE next

extract_assistant_message_panics(ev) ==
    \E i \in 1..Len(ToolItems(ev)) :
        LET item == ToolItems(ev)[i]
        IN  item.name = "Bash" /\ item.input # None /\ BashArmPanics(item.input[1])

\* extract_assistant_message, when it returns.
extract_assistant_message(ev, m) ==
    LET m1 == IF m.model = None /\ ev.model # NoVal
              THEN [m EXCEPT !.model = Some(ev.model)]
              ELSE m
        u == ev.usage[1]
        m2 == IF ev.usage = None THEN m1
              ELSE [m1 EXCEPT
                     !.total_input_tokens = @ + u.input_tokens
                         + u.cache_creation_input_tokens + u.cache_read_input_tokens,
                     !.total_output_tokens = @ + u.output_tokens]
    IN  FoldTools(m2, ToolItems(ev))

\* The panics of the match on the event's type.
EventPanics(ev) ==
    \/ ev.type = "user" /\ extract_user_message_panics(ev)
    \/ ev.type = "assistant" /\ extract_assistant_message_panics(ev)

\* A parser that never computes the duration.
DurationNeverSet(m) == m

\* chrono::DateTime::parse_from_rfc3339 on the timestamp strings of the
\* model: the instant in milliseconds since 2026-02-21T00:00:00Z.  Strings
\* outside the table do not parse.
Rfc3339 ==
    [ts \in {"2026-02-21T10:00:00Z", "2026-02-21T10:30:00Z",
             "2026-02-21T11:00:00+01:00", "2026-02-21T10:00:00.500Z"} |->
        CASE ts = "2026-02-21T10:00:00Z" -> 36000000
          [] ts = "2026-02-21T10:30:00Z" -> 37800000
          [] ts = "2026-02-21T11:00:00+01:00" -> 36000000
          [] ts = "2026-02-21T10:00:00.500Z" -> 36000500]

\* TimeDelta::num_seconds: whole seconds, rounded toward zero.
num_seconds(ms) == IF ms >= 0 THEN ms \div 1000 ELSE -((-ms) \div 1000)

\* SessionMetadata::compute_duration.
compute_duration(m) ==
    IF m.first_timestamp # None /\ m.last_timestamp # None
          /\ m.first_timestamp[1] \in DOMAIN Rfc3339
          /\ m.last_timestamp[1] \in DOMAIN Rfc3339
    THEN [m EXCEPT !.duration_seconds =
            Some(num_seconds(Rfc3339[m.last_timestamp[1]]
                                - Rfc3339[m.first_timestamp[1]]))]
    ELSE m

\* if meta.git_branch.is_none() { if let Some(branch) = ... }
BranchSet(m, ev) == m.git_branch = None /\ ev.gitBranch # NoVal

\* Body of the line loop of parse_transcript, for a decoded line.
MergeEvent(m, ev) ==
    LET t1 == IF ev.timestamp # NoVal /\ m.first_timestamp = None
              THEN [m EXCEPT !.first_timestamp = Some(ev.timestamp)]
              ELSE m
        t2 == IF ev.timestamp # NoVal
              THEN [t1 EXCEPT !.last_timestamp = Some(ev.timestamp)]
              ELSE t1
        m1 == IF t2.session_id = "" /\ ev.sessionId # NoVal
              THEN [t2 EXCEPT !.session_id = ev.sessionId]
              ELSE t2
        m2 == IF m1.project_dir = "" /\ ev.cwd # NoVal
              THEN [m1 EXCEPT !.project_dir = ev.cwd]
              ELSE m1
        m3 == IF BranchSet(m2, ev)
              THEN [m2 EXCEPT !.git_branch = Some(ev.gitBranch)]
              ELSE m2
    IN  CASE ev.type = "user" -> extract_user_message(ev, m3)
          [] ev.type = "assistant" -> extract_assistant_message(ev, m3)
          [] OTHER -> m3

\* The line loop: line? returns the read error, blank and corrupt lines
\* are skipped; a panic ends the process without a result.
RECURSIVE FoldLines(_, _)
FoldLines(m, lines) ==
    IF lines = <<>> THEN [err |-> "none", meta |-> m]
    ELSE LET line == Head(lines)
         IN  IF line.kind = "invalid_utf8"
             THEN [err |-> "invalid_data", meta |-> NoMeta]
             ELSE IF line.kind \in {"blank", "corrupt"}
             THEN FoldLines(m, Tail(lines))
             ELSE IF EventPanics(line.ev)
             THEN [err |-> "panic", meta |-> NoMeta]
             ELSE FoldLines(MergeEvent(m, line.ev), Tail(lines))

DefaultMeta == NoMeta

\* parse_transcript on a file that exists: [err, meta].
parse_transcript(lines) ==
    LET res == FoldLines(DefaultMeta, lines)
    IN  IF res.err = "none"
        THEN [err |-> "none", meta |-> compute_duration(res.meta)]
        ELSE res

RECURSIVE CopilotPrompts(_)
CopilotPrompts(turns) ==
    IF turns = <<>> THEN <<>>
    ELSE LET t == Head(turns)
         IN  (IF t.role = "user" /\ trim(t.content) # <<>>
              THEN <<truncate(t.content, MAX_PROMPT_LEN)>> ELSE <<>>)
             \o CopilotPrompts(Tail(turns))

\* A snapshot document: NoVal marks an absent key.
CopilotDoc(sid, cwd, captured_at, model, turns) ==
    [session_id |-> sid, cwd |-> cwd, captured_at |-> captured_at,
     model |-> model, turns |-> turns]

parse_copilot_json_panics(doc) ==
    \E i \in 1..Len(doc.turns) :
        /\ doc.turns[i].role = "user"
        /\ trim(doc.turns[i].content) # <<>>
        /\ truncate_panics(doc.turns[i].content, MAX_PROMPT_LEN)

\* parse_copilot_json, when it returns: uuid is the identifier
\* Uuid::new_v4() would return.
parse_copilot_json(doc, uuid) ==
    [DefaultMeta EXCEPT
        !.session_id = IF doc.session_id = NoVal THEN uuid ELSE doc.session_id,
        !.project_dir = IF doc.cwd = NoVal THEN "" ELSE doc.cwd,
        !.model = IF doc.model = NoVal THEN None ELSE Some(doc.model),
        !.first_timestamp =
            IF doc.captured_at = NoVal THEN None ELSE Some(doc.captured_at),
        !.last_timestamp =
            IF doc.captured_at = NoVal THEN None ELSE Some(doc.captured_at),
        !.user_prompts = CopilotPrompts(doc.turns)]

\* ------------------------------------------------------------ inputs
Transcripts ==
    { <<JsonLine(Event("s1", "user", Some(TextA), None))>>,
      <<JsonLine(Event(NoVal, "system", None, None)),
        CorruptLine,
        JsonLine(Event("s2", "user", Some(TextAB), None)),
        JsonLine(Event("s1", "assistant", None, Some(TextC)))>>,
      <<JsonLine(Event(NoVal, "user", Some(TextA), None)), BlankLine>>,
      <<JsonLine(Event("s1", "assistant", None, Some(TextC)))>>,
      <<JsonLine(Event("s1", "user", Some(TextA), None)), UndecodableLine>> }

\* Hook inputs whose transcript_path names an existing file.
HookInputs == [session_id : {NoVal} \cup SessionIds, transcript : Transcripts]

Turn(role, content) == [role |-> role, content |-> content]

CopilotDocs ==
    {CopilotDoc(sid, NoVal, NoVal, NoVal, turns) :
        sid \in {NoVal} \cup SessionIds,
        turns \in { <<Turn("assistant", TextA)>>,
                    <<Turn("assistant", TextAB), Turn("user", TextA)>> }}

Metas ==
    { [NoMeta EXCEPT !.session_id = "s1", !.user_prompts = <<TextA>>],
      [NoMeta EXCEPT !.session_id = "s2", !.user_prompts = <<TextAB>>,
                     !.files_read = {TextC}] }

\* The project root run_claude derives from the hook's cwd.
ProjectRoot == "root"

\* insert_session: meta.first_timestamp.as_deref().unwrap_or("unknown").
started_at(m) ==
    IF m.first_timestamp = None THEN "unknown" ELSE m.first_timestamp[1]

\* The seconds datetime('now') returns while the model runs.
MaxClock == 2

Seconds == 1..MaxClock

\* Arguments of log_note: content and tags.
NoteInputs == {[content |-> TextAB, tags |-> <<TextA>>]}

\* Identifiers in use: stored, or held by a process.
UsedIds == StoredIds \cup {meta[q].session_id : q \in Procs}

SeqsOf(S) == {f \in [1..Cardinality(S) -> S] : Range(f) = S}

\* ------------------------------------------------------- task entry
Begin(p, t, a, m, where) ==
    /\ pc[p] = "idle"
    /\ task' = [task EXCEPT ![p] = t]
    /\ arg' = [arg EXCEPT ![p] = a]
    /\ meta' = [meta EXCEPT ![p] = m]
    /\ Goto(p, where, IF where = "base" THEN 1 ELSE 0)
    /\ UNCHANGED <<store, err, out, lastFail>>

\* status / serve: the operation only opens the store.
StartOpen(p) == Begin(p, "open", NoVal, NoMeta, "base")

\* run_claude up to db::open: no transcript_path, or no such file, skips.
\* The rest of the hook input is drawn where run_claude first reads it.
StartClaude(p) ==
    \E usable \in BOOLEAN :
        Begin(p, "ingest_claude", NoVal, NoMeta,
              IF usable THEN "base" ELSE "skipped")

\* run_copilot up to db::open: the document is parsed first.
StartCopilot(p) ==
    \E doc \in CopilotDocs, u \in Uuids \ UsedIds :
        LET m == parse_copilot_json(doc, u)
        IN  Begin(p, "ingest_copilot", doc, m,
                  IF m.user_prompts = <<>> THEN "skipped" ELSE "base")

\* A caller of insert_session with metadata of its own (the store's tests).
StartInsert(p) == Begin(p, "insert", NoVal, NoMeta, "base")

\* handle_log_note
StartNote(p) == Begin(p, "note", NoVal, NoMeta, "base")

\* ------------------------------------------------- ingestion orchestrator
IngestTasks == {"ingest_claude", "ingest_copilot"}

Return(p, e) ==
    /\ Goto(p, IF e = "none" THEN "done" ELSE "failed", 0)
    /\ err' = [err EXCEPT ![p] = e]

\* run_claude: the id and project-directory fallbacks on the parsed
\* metadata; u is the generated uuid.
WithFallbacks(parsed, hook_sid, u) ==
    LET m1 == IF parsed.session_id = ""
              THEN [parsed EXCEPT !.session_id =
                       IF hook_sid # NoVal THEN hook_sid ELSE u]
              ELSE parsed
    IN  IF m1.project_dir = ""
        THEN [m1 EXCEPT !.project_dir = ProjectRoot]
        ELSE m1

\* run_claude from the result of parse_transcript on: the fallbacks, the
\* empty-session skip, and the step to insert_session.
ClaudeParsed(p, hook_sid, res) ==
    LET needUuid == /\ res.err = "none" /\ res.meta.session_id = ""
                    /\ hook_sid = NoVal
    IN  \E u \in IF needUuid THEN Uuids \ UsedIds ELSE {""} :
          LET m == WithFallbacks(res.meta, hook_sid, u)
          IN  /\ UNCHANGED out
              /\ IF res.err # "none"
                 THEN Return(p, res.err) /\ UNCHANGED meta
                 ELSE /\ meta' = [meta EXCEPT ![p] = m]
                      /\ IF m.user_prompts = <<>>
                         THEN Return(p, "none")
                         ELSE Goto(p, "insert", 0) /\ UNCHANGED err

\* run_claude after db::open: existence check on the hook's id, parse,
\* id and project-directory fallbacks, empty-session skip.
ClaudeCheck(p) ==
    /\ pc[p] = "check" /\ task[p] = "ingest_claude"
    /\ \E hook \in HookInputs :
         /\ arg' = [arg EXCEPT ![p] = hook.session_id]
         /\ IF hook.session_id # NoVal /\ session_exists(hook.session_id)
            THEN /\ Return(p, "none")
                 /\ out' = [out EXCEPT ![p] = "already_ingested"]
                 /\ UNCHANGED meta
            ELSE ClaudeParsed(p, hook.session_id,
                              parse_transcript(hook.transcript))
    /\ UNCHANGED <<store, task, lastFail>>

\* run_copilot after db::open: existence check on the parsed id.
CopilotCheck(p) ==
    /\ pc[p] = "check" /\ task[p] = "ingest_copilot"
    /\ IF session_exists(meta[p].session_id)
       THEN /\ Return(p, "none")
            /\ out' = [out EXCEPT ![p] = "already_ingested"]
       ELSE /\ Goto(p, "insert", 0)
            /\ UNCHANGED <<err, out>>
    /\ UNCHANGED <<store, task, arg, meta, lastFail>>

\* insert_session: the collections are serialized, then one INSERT.
InsertSession(p) ==
    /\ pc[p] = "insert"
    /\ \E m \in IF task[p] = "insert" THEN Metas ELSE {meta[p]} :
       \E files \in SeqsOf(m.files_read) :
         LET row == SessionRow(m.session_id, started_at(m), m.user_prompts, files)
             res == SqlInsertSession(row)
         IN  /\ Len(res.rows) <= MaxSessions
             /\ meta' = [meta EXCEPT ![p] = m]
             /\ sessions' = res.rows
             /\ shadowIdx' = res.idx
             /\ Return(p, res.err)
    /\ UNCHANGED <<objects, versionRows, notes, shadowGen, triggers,
                   task, arg, out, lastFail>>

\* insert_note: a fresh uuid, then one INSERT.
InsertNote(p) ==
    /\ pc[p] = "note"
    /\ \E n \in NoteInputs, now \in Seconds :
       LET res == SqlInsertNote(NoteRow(Len(notes) + 1, n.content, n.tags, now))
       IN  /\ Len(res.rows) <= MaxNotes
           /\ notes' = res.rows
           /\ shadowIdx' = res.idx
           /\ Return(p, res.err)
    /\ UNCHANGED <<objects, versionRows, sessions, shadowGen, triggers,
                   task, arg, meta, out, lastFail>>

\* ------------------------------------------------------- search (recall)
\* Raw queries, as character sequences.
Queries ==
    { <<"a">>,
      <<"a", " ", "b">>,
      <<"a", "-", "x">>,
      <<"x", " ", " ", "y">>,
      <<"x">>,
      <<"(", "c", "/", "d", ")">>,
      <<"a", " ", "O", "R", " ", "x">>,
      <<"x", " ", "O", "R", " ", "y">>,
      <<"a", " ", "N", "O", "T", " ", "b">>,
      <<"\"", "a", " ", "b", "\"">>,
      <<"\"", "b", " ", "a", "\"", " ", "x">>,
      <<"\"", "a">>,
      <<"A", "N", "D">>,
      <<"-">> }

Limits == {0, 1, 2}

StartSearch(p) == Begin(p, "search", NoVal, NoMeta, "base")

\* What search_sessions returns when the exact pass found rows.
ExactResult(rows) == [rows |-> rows, fallback |-> FALSE]

\* What search_sessions returns when the OR pass found rows.
FallbackResult(rows) == [rows |-> rows, fallback |-> TRUE]

EmptyResultAsFallback == [rows |-> <<>>, fallback |-> TRUE]

\* What search_sessions returns when no pass found rows.
EmptyResult == [rows |-> <<>>, fallback |-> FALSE]

TriesFallbackAlways(rows, sanitized) == build_or_fallback(sanitized) # None

\* Whether search_sessions goes on to the OR pass after the exact pass.
TriesFallback(rows, sanitized) ==
    rows = <<>> /\ build_or_fallback(sanitized) # None

Call(expr, res) == [expr |-> expr, err |-> res.err, rows |-> res.rows]

\* search_sessions up to the end of the exact pass.  calls records the
\* fts_match invocations of this search, in order.
SearchExact(p) ==
    /\ pc[p] = "search"
    /\ \E query \in Queries, limit \in Limits :
         LET sanitized == sanitize_fts_query(query)
             res == fts_match(sanitized, limit)
             in == [query |-> query, limit |-> limit, sanitized |-> sanitized]
         IN  /\ arg' = [arg EXCEPT ![p] = in]
             /\ IF res.err # "none"
                THEN /\ Return(p, res.err)
                     /\ out' = [out EXCEPT ![p] =
                                  [calls |-> <<Call(sanitized, res)>>]]
                ELSE IF TriesFallback(res.rows, sanitized)
                THEN /\ Goto(p, "search_or", 0)
                     /\ out' = [out EXCEPT ![p] =
                                  [calls |-> <<Call(sanitized, res)>>]]
                     /\ UNCHANGED err
                ELSE /\ Return(p, "none")
                     /\ out' = [out EXCEPT ![p] =
                                  [calls |-> <<Call(sanitized, res)>>,
                                   ret |-> IF res.rows # <<>>
                                           THEN ExactResult(res.rows)
                                           ELSE EmptyResult]]
    /\ UNCHANGED <<store, task, meta, lastFail>>

\* search_sessions, the OR pass.
SearchOr(p) ==
    /\ pc[p] = "search_or"
    /\ LET or_query == build_or_fallback(arg[p].sanitized)[1]
           res == fts_match(or_query, arg[p].limit)
       IN  IF res.err # "none"
           THEN /\ Return(p, res.err)
                /\ out' = [out EXCEPT ![p] =
                             [calls |-> Append(out[p].calls, Call(or_query, res))]]
           ELSE /\ Return(p, "none")
                /\ out' = [out EXCEPT ![p] =
                             [calls |-> Append(out[p].calls, Call(or_query, res)),
                              ret |-> IF res.rows # <<>>
                                      THEN FallbackResult(res.rows)
                                      ELSE EmptyResult]]
    /\ UNCHANGED <<store, task, arg, meta, lastFail>>

\* The process ends; the next invocation starts from scratch.
Exit(p) ==
    /\ pc[p] \in {"done", "failed", "skipped"}
    /\ Goto(p, "idle", 0)
    /\ task' = [task EXCEPT ![p] = "open"]
    /\ arg' = [arg EXCEPT ![p] = NoVal]
    /\ meta' = [meta EXCEPT ![p] = NoMeta]
    /\ err' = [err EXCEPT ![p] = "none"]
    /\ out' = [out EXCEPT ![p] = NoVal]
    /\ UNCHANGED <<store, lastFail>>

\* ------------------------------------- the query functions, called directly
MaxQueryLen == 4

MaxTerms == 3

\* Characters of the enumerated queries: a letter, the underscore, two
\* whitespace characters, the double quote and two special characters.
QueryChars == {"a", "_", " ", "\t", "\"", "-", "*"}

RECURSIVE StringsUpTo(_, _)
StringsUpTo(chars, n) ==
    IF n = 0 THEN {<<>>}
    ELSE LET shorter == StringsUpTo(chars, n - 1)
         IN  shorter \cup {Append(s, c) : s \in shorter, c \in chars}

\* Queries of the unit tests of db/mod.rs and of the documentation.
ExampleQueries ==
    { <<"c", "l", "a", "u", "d", "e", "-", "m", "e", "m", "o", "r", "y",
         " ", "i", "n", "s", "t", "a", "l", "l">>,
      <<"(", "f", "o", "o", "*", ")", " ", "A", "N", "D", " ", "b", "a",
         "r">>,
      <<"\"", "e", "x", "a", "c", "t", " ", "p", "h", "r", "a", "s", "e",
         "\"", " ", "A", "N", "D", " ", "x">>,
      <<"i", "n", "s", "t", "a", "l", "l", " ", "M", "C", "P", " ", "s",
         "e", "r", "v", "e", "r">>,
      <<"\"", "a", " ", " ", "b", "\"">>,
      <<"a", " ", "N", "E", "A", "R", " ", "b">> }

RawQueries == StringsUpTo(QueryChars, MaxQueryLen) \cup Queries \cup ExampleQueries

\* Queries made of whole words, operator keywords among them.
QueryWords ==
    { <<"a">>, <<"b">>, OpAND, OpOR, OpNOT, OpNEAR, <<"o", "r">>,
      <<"A", "N", "D", "a">> }

WordSeqs == UNION {[1..n -> QueryWords] : n \in 0..MaxTerms}

TermQueries ==
    {join(ws, <<" ">>) : ws \in WordSeqs}
        \cup {<<" ">> \o join(ws, <<" ", "\t">>) \o <<" ">> : ws \in WordSeqs}

\* sanitize_fts_query(query)
CallSanitize(p) ==
    /\ pc[p] = "idle"
    /\ \E query \in RawQueries :
         /\ arg' = [arg EXCEPT ![p] = query]
         /\ out' = [out EXCEPT ![p] = [sanitized |-> sanitize_fts_query(query)]]
    /\ task' = [task EXCEPT ![p] = "sanitize"]
    /\ Goto(p, "sanitized", 0)
    /\ UNCHANGED <<store, meta, err, lastFail>>

\* sanitize_fts_query applied to its own output.
SanitizeAgain(p) ==
    /\ pc[p] = "sanitized"
    /\ out' = [out EXCEPT ![p] =
                 [sanitized |-> out[p].sanitized,
                  again |-> sanitize_fts_query(out[p].sanitized)]]
    /\ Goto(p, "done", 0)
    /\ UNCHANGED <<store, task, arg, meta, err, lastFail>>

\* build_or_fallback(sanitized_query)
CallBuildOrFallback(p) ==
    /\ pc[p] = "idle"
    /\ \E query \in RawQueries \cup TermQueries :
         /\ arg' = [arg EXCEPT ![p] = query]
         /\ out' = [out EXCEPT ![p] = build_or_fallback(query)]
    /\ task' = [task EXCEPT ![p] = "or_fallback"]
    /\ Goto(p, "done", 0)
    /\ UNCHANGED <<store, meta, err, lastFail>>

\* ------------------------------------------ the parser, called directly
MaxLines == 3

\* Decoded lines that differ in the keys with first-write-wins handling.
ParseEvents ==
    {Event(sid, "system", None, None) : sid \in {NoVal, "", "s1", "s2"}}
        \cup {Located(NoEvent, cwd, NoVal) : cwd \in {"", "d1", "d2"}}
        \cup {Located(NoEvent, NoVal, branch) : branch \in {"", "b1", "b2"}}
        \cup {Located(Event("s2", "user", Some(TextA), None), "d2", "b2")}

ParseLines ==
    {BlankLine, CorruptLine, UndecodableLine} \cup {JsonLine(ev) : ev \in ParseEvents}

LineSeqs == StringsUpTo(ParseLines, MaxLines)

\* ---- fixtures: transcripts that exercise the extraction rules
Repeat(c, n) == [i \in 1..n |-> c]

UserTurn(content) == JsonLine(Event("s1", "user", content, None))

Markup == <<"<", "a", ">">>

\* Prompts at and around MAX_PROMPT_LEN, of one- and two-byte characters.
LongPrompts ==
    { Repeat("a", MAX_PROMPT_LEN),
      Repeat("a", MAX_PROMPT_LEN + 1),
      Repeat("a", MAX_PROMPT_LEN - 1) \o <<EAcute>>,
      Repeat(EAcute, MAX_PROMPT_LEN \div 2 + 1) }

PromptFixtures ==
    { <<UserTurn(Some(t))>> : t \in LongPrompts }
      \cup
    { <<UserTurn(Some(TextA)), UserTurn(Some(Markup)), UserTurn(Some(<<>>)),
        JsonLine(Event("s1", "assistant", Some(TextC), None)),
        UserTurn(Blocks(<<Block("tool_result", Some(TextC))>>)),
        UserTurn(None), UserTurn(Some(TextAB))>>,
      <<UserTurn(Blocks(<<Block("text", Some(TextA)),
                          Block("tool_result", Some(TextC)),
                          Block("text", Some(Markup)),
                          Block("image", None)>>)),
        UserTurn(Some(TextAB))>>,
      <<UserTurn(Blocks(<<Block("text", Some(TextA)),
                          Block("text", Some(TextAB))>>))>> }

BashTurn(cmds) ==
    JsonLine(Assistant("s1", NoVal, None,
                       [i \in 1..Len(cmds) |-> ToolUse("Bash", Some(cmds[i]))]))

\* MAX_COMMANDS + 1 distinct commands, the first of them run twice.
ManyCommands ==
    <<Repeat("x", 1)>> \o [i \in 1..(MAX_COMMANDS + 1) |-> Repeat("x", i)]

CommandFixtures ==
    { <<BashTurn(ManyCommands)>>,
      <<BashTurn(<<TextAB, TextC>>), BashTurn(<<TextC, TextAB, TextA>>)>>,
      <<BashTurn(<<Repeat("x", MAX_COMMAND_LEN)>>)>>,
      <<BashTurn(<<Repeat("x", MAX_COMMAND_LEN + 1)>>)>>,
      <<BashTurn(<<Repeat("x", MAX_COMMAND_LEN) \o <<"y">>,
                   Repeat("x", MAX_COMMAND_LEN) \o <<"z">>>>)>>,
      <<BashTurn(<<Repeat("x", MAX_COMMAND_LEN - 1) \o <<EAcute>>>>)>> }

CommitCommands ==
    { <<"g", "i", "t", " ", "c", "o", "m", "m", "i", "t", " ", "-", "m", " ", "\"", "f", "i", "x", ":", " ", "r", "e", "s", "o", "l", "v", "e", " ", "b", "u", "g", "\"">>,
      <<"g", "i", "t", " ", "c", "o", "m", "m", "i", "t", " ", "-", "m", " ", "'", "w", "i", "p", "'">>,
      <<"g", "i", "t", " ", "c", "o", "m", "m", "i", "t", " ", "-", "m", " ", "f", "i", "x">>,
      <<"g", "i", "t", " ", "c", "o", "m", "m", "i", "t">>,
      <<"g", "i", "t", " ", "c", "o", "m", "m", "i", "t", " ", "-", "m", " ", "\"", "o", "p", "e", "n">>,
      <<"g", "i", "t", " ", "c", "o", "m", "m", "i", "t", " ", "-", "a", "m", " ", "f", "i", "x">>,
      <<"g", "i", "t", " ", "c", "o", "m", "m", "i", "t", " ", "-", "m", " ", " ", "\"", "a", "\"", " ", "-", "m", " ", "\"", "b", "\"">>,
      <<"g", "i", "t", " ", "c", "o", "m", "m", "i", "t", " ", "-", "m", " ">> \o Repeat("x", CommitSnippetLen),
      <<"g", "i", "t", " ", "c", "o", "m", "m", "i", "t", " ", "-", "m", " ">> \o Repeat("x", CommitSnippetLen + 1),
      <<"g", "i", "t", " ", "c", "o", "m", "m", "i", "t", " ", "-", "m", " ">> \o Repeat("x", CommitSnippetLen - 1)
          \o <<EAcute>> }

CommitFixtures == { <<BashTurn(<<cmd>>)>> : cmd \in CommitCommands }

Timestamps ==
    {NoVal, "yesterday"} \cup DOMAIN Rfc3339

TimestampFixtures ==
    { <<JsonLine(Stamped(Event("s1", "user", Some(TextA), None), t1)),
        JsonLine(Stamped(Event("s1", "system", None, None), t2)),
        JsonLine(Stamped(Event("s1", "user", Some(TextAB), None), t3))>> :
        t1 \in Timestamps, t2 \in {NoVal, "yesterday"}, t3 \in Timestamps }

\* One assistant message with a model, token usage and every tool.
ToolFixtures ==
    { <<JsonLine(Assistant("s1", "m1", Usage(100, 50, 7, 3),
                           <<ToolUse("Write", Some(TextC)),
                             ToolUse("Edit", Some(TextC)),
                             ToolUse("Read", Some(TextAB)),
                             ToolUse("Bash", Some(TextA)),
                             ToolUse("Grep", None), ToolUse("Bash", None)>>)),
        JsonLine(Assistant("s1", "m2", Usage(1, 1, 0, 0), <<>>))>> }

Fixtures ==
    PromptFixtures \cup CommandFixtures \cup CommitFixtures
        \cup TimestampFixtures \cup ToolFixtures

\* Snapshot documents: every key present or absent, turns of every role,
\* blank and long contents.
SnapshotTurns ==
    { <<>>,
      <<Turn("user", TextA), Turn("assistant", TextAB), Turn("user", <<" ", "\t">>),
        Turn("user", <<>>), Turn("system", TextA), Turn("user", Markup),
        Turn("user", <<" ", "c">>)>> }
      \cup { <<Turn("user", t)>> : t \in LongPrompts }

SnapshotDocs ==
    {CopilotDoc(sid, cwd, ts, model, turns) :
        sid \in {NoVal, "s1"}, cwd \in {NoVal, "d1"},
        ts \in {NoVal, "2026-02-21T10:00:00Z"}, model \in {NoVal, "m1"},
        turns \in SnapshotTurns}

\* The identifiers the snapshot parses of the other processes returned.
ParsedIds(p) ==
    {out[q].meta.session_id : q \in {r \in Procs \ {p} : task[r] = "parse_copilot"}}

\* parse_copilot_json(input), the input holding the document drawn.
CallParseCopilot(p) ==
    /\ pc[p] = "idle"
    /\ \E doc \in SnapshotDocs, u \in Uuids \ ParsedIds(p) :
         /\ arg' = [arg EXCEPT ![p] = doc]
         /\ out' = [out EXCEPT ![p] =
                IF parse_copilot_json_panics(doc)
                THEN [err |-> "panic", meta |-> NoMeta]
                ELSE [err |-> "none", meta |-> parse_copilot_json(doc, u)]]
    /\ task' = [task EXCEPT ![p] = "parse_copilot"]
    /\ Goto(p, "done", 0)
    /\ UNCHANGED <<store, meta, err, lastFail>>

\* parse_transcript(path), the file at path holding the lines drawn.
CallParse(p) ==
    /\ pc[p] = "idle"
    /\ \E lines \in LineSeqs \cup Fixtures :
         /\ arg' = [arg EXCEPT ![p] = lines]
         /\ out' = [out EXCEPT ![p] = parse_transcript(lines)]
    /\ task' = [task EXCEPT ![p] = "parse"]
    /\ Goto(p, "done", 0)
    /\ UNCHANGED <<store, meta, err, lastFail>>

\* ------------------------------------------------------ initial stores
\* A store no process has opened yet.
FreshStore ==
    /\ objects = {}
    /\ versionRows = EmptyBag
    /\ sessions = <<>>
    /\ notes = <<>>
    /\ shadowGen = [t \in ShadowTables |-> "none"]
    /\ shadowIdx = [t \in ShadowTables |-> EmptyBag]
    /\ triggers = [t \in TriggerNames |-> "none"]

\* A store written by the release before schema versioning: base tables,
\* legacy shadow tables and triggers, no version row.
LegacyRow == SessionRow("s1", "2026-02-21T10:00:00Z", <<TextAB>>, <<TextC>>)

LegacyRows == { <<>>, <<LegacyRow>> }

\* The legacy index mirrors user_prompts only.
LegacyIndex(t) ==
    IF t = "sessions_fts"
    THEN SetToBag({<<i, <<sessions[i].user_prompts>>>> : i \in 1..Len(sessions)})
    ELSE EmptyBag

LegacyStore ==
    /\ objects = Range(BaseStmts) \ {"schema_version"}
    /\ versionRows = EmptyBag
    /\ sessions \in LegacyRows
    /\ notes = <<>>
    /\ shadowGen = [t \in ShadowTables |-> "v0"]
    /\ shadowIdx = [t \in ShadowTables |-> LegacyIndex(t)]
    /\ triggers = [t \in TriggerNames |-> "v0"]

InitProcs ==
    /\ pc = [p \in Procs |-> "idle"]
    /\ ix = [p \in Procs |-> 0]
    /\ task = [p \in Procs |-> "open"]
    /\ arg = [p \in Procs |-> NoVal]
    /\ meta = [p \in Procs |-> NoMeta]
    /\ err = [p \in Procs |-> "none"]
    /\ out = [p \in Procs |-> NoVal]
    /\ lastFail = "none"

Init == (FreshStore \/ LegacyStore) /\ InitProcs

\* ------------------------------------------------------ MCP server tools
\* dispatch(name, args, conn): the handlers, on the connection that
\* handle_call_tool opened.

\* The strings of the started_at column and of the date arguments, in the
\* byte order SQLite's comparison of TEXT values follows.
Collation ==
    << "2026-02-21", "2026-02-21T10:00:00Z", "2026-02-21T10:30:00Z",
       "2026-02-22", "2026-02-22T09:00:00Z", "unknown" >>

Place(s) == CHOOSE i \in 1..Len(Collation) : Collation[i] = s

\* a <= b on TEXT values.
TextLeq(a, b) == Place(a) <= Place(b)

unwrap_or(opt, default) == IF opt = None THEN default ELSE opt[1]

ClampUncapped(limit, default, cap) == unwrap_or(limit, default)

\* args.get("limit").and_then(|l| l.as_u64()).unwrap_or(default).min(cap)
Clamp(limit, default, cap) ==
    IF unwrap_or(limit, default) < cap THEN unwrap_or(limit, default) ELSE cap

RecallDefault == 5

RecallCap == 20

ListDefault == 10

ListCap == 50

ProjectsDefault == 20

ProjectsCap == 50

NotesDefault == 10

InRangeNoLowerBound(at, date_from, date_to) ==
    date_to # None => TextLeq(at, date_to[1])

\* WHERE 1=1 [AND started_at >= ?] [AND started_at <= ?]
InRange(at, date_from, date_to) ==
    /\ date_from # None => TextLeq(date_from[1], at)
    /\ date_to # None => TextLeq(at, date_to[1])

Reverse(s) == [i \in 1..Len(s) |-> s[Len(s) + 1 - i]]

RECURSIVE Concat(_)
Concat(seqs) == IF seqs = <<>> THEN <<>> ELSE Head(seqs) \o Concat(Tail(seqs))

\* ORDER BY key DESC over rows given in rowid order, the keys in 1..top:
\* rows of equal key come in ascending or descending rowid, as the query
\* plan has it.
OrderedDesc(rows, keys, top, tie) ==
    LET keyed == [i \in 1..Len(rows) |-> <<keys[i], rows[i]>>]
        sorted == Concat([k \in 1..top |->
                    LET same == SelectSeq(keyed, LAMBDA e : e[1] = top + 1 - k)
                    IN  IF tie = "asc" THEN same ELSE Reverse(same)])
    IN  [i \in 1..Len(sorted) |-> sorted[i][2]]

\* list_sessions: SELECT ... ORDER BY started_at DESC LIMIT ?
list_sessions(limit, date_from, date_to, tie) ==
    LET kept == SelectSeq(sessions,
                          LAMBDA r : InRange(r.started_at, date_from, date_to))
        keys == [i \in 1..Len(kept) |-> Place(kept[i].started_at)]
    IN  Take(OrderedDesc(kept, keys, Len(Collation), tie), limit)

\* search_sessions: the exact pass, then the OR pass.
search_sessions(query, limit) ==
    LET sanitized == sanitize_fts_query(query)
        exact == fts_match(sanitized, limit)
    IN  IF exact.err # "none" THEN [err |-> exact.err, ret |-> EmptyResult]
        ELSE IF ~TriesFallback(exact.rows, sanitized)
        THEN [err |-> "none",
              ret |-> IF exact.rows # <<>> THEN ExactResult(exact.rows)
                      ELSE EmptyResult]
        ELSE LET or == fts_match(build_or_fallback(sanitized)[1], limit)
             IN  IF or.err # "none" THEN [err |-> or.err, ret |-> EmptyResult]
                 ELSE [err |-> "none",
                       ret |-> IF or.rows # <<>> THEN FallbackResult(or.rows)
                               ELSE EmptyResult]

\* serde_json::to_string(tags): the JSON text of the tags column.
RECURSIVE TagsItems(_)
TagsItems(tags) ==
    IF tags = <<>> THEN <<>>
    ELSE <<"\"">> \o Head(tags) \o <<"\"">>
         \o (IF Len(tags) > 1 THEN <<",">> ELSE <<>>) \o TagsItems(Tail(tags))

TagsJson(tags) == <<"[">> \o TagsItems(tags) \o <<"]">>

\* text LIKE pattern: % matches any run, _ any character, letters match
\* without regard to case.
RECURSIVE Like(_, _)
Like(pattern, text) ==
    IF pattern = <<>> THEN text = <<>>
    ELSE IF Head(pattern) = "%"
    THEN Like(Tail(pattern), text) \/ (text # <<>> /\ Like(pattern, Tail(text)))
    ELSE /\ text # <<>>
         /\ Head(pattern) = "_" \/ Fold(Head(pattern)) = Fold(Head(text))
         /\ Like(Tail(pattern), Tail(text))

\* format!("%\"{}%", t)
TagPattern(t) == <<"%", "\"">> \o t \o <<"%">>

\* Rowids of the notes_fts entries matching the expression, ascending
\* rowid standing for rank.
MatchingNotes(toks) ==
    LET cols(e) == <<Tokenize(e[2][1]), ColumnTokens(e[2][2])>>
        hits == {e[1] : e \in {x \in BagToSet(shadowIdx["notes_fts"]) :
                                  ExprMatches(toks, cols(x))}}
    IN  [k \in 1..Cardinality(hits) |->
            CHOOSE i \in hits : Cardinality({j \in hits : j < i}) = k - 1]

\* search_notes: [err, rows].
search_notes(query, tag, limit, tie) ==
    LET Recent(rows) ==
            Take(OrderedDesc(rows, [i \in 1..Len(rows) |-> rows[i].created_at],
                             MaxClock, tie), limit)
    IN  IF query # None
        THEN LET lexed == Lex(sanitize_fts_query(query[1]), <<>>)
             IN  IF shadowGen["notes_fts"] = "none"
                 THEN [err |-> "no_such_table", rows |-> <<>>]
                 ELSE IF ~lexed.ok \/ lexed.toks = <<>> \/ ~WellFormed(lexed.toks)
                 THEN [err |-> "fts_syntax", rows |-> <<>>]
                 ELSE LET hits == MatchingNotes(lexed.toks)
                      IN  [err |-> "none",
                           rows |-> Take([k \in 1..Len(hits) |-> notes[hits[k]]],
                                         limit)]
        ELSE IF tag # None
        THEN [err |-> "none",
              rows |-> Recent(SelectSeq(notes,
                         LAMBDA r : Like(TagPattern(tag[1]), TagsJson(r.tags))))]
        ELSE [err |-> "none", rows |-> Recent(notes)]

\* ---- tool arguments
LargeLimit == 1000000

\* The limit argument: absent, or an unsigned integer.
LimitArgs == {None} \cup {Some(n) : n \in {0, 1, 2, 20, 21, 50, 51, LargeLimit}}

DateArgs ==
    {None, Some("2026-02-21"), Some("2026-02-21T10:30:00Z"), Some("2026-02-22")}

RecallQueries == {<<"a">>, <<"b">>, <<"x", " ", "a">>}

TagBug == <<"b", "u", "g">>

TagBugfix == <<"b", "u", "g", "f", "i", "x">>

NoteArgs ==
    { [content |-> TextA, tags |-> <<TagBug>>],
      [content |-> TextAB, tags |-> <<TagBugfix, TextC>>],
      [content |-> TextC, tags |-> <<>>] }

NoteQueries == {None, Some(<<"a">>)}

TagArgs == {None, Some(TagBug), Some(<<"f", "i", "x">>)}

NoteLimits == {None, Some(0), Some(1)}

\* The numbers of project databases discover_project_dbs finds readable.
ProjectCounts == {0, 1, 50, 51}

Ended(p, t, a, e, o) ==
    /\ pc[p] = "idle"
    /\ task' = [task EXCEPT ![p] = t]
    /\ arg' = [arg EXCEPT ![p] = a]
    /\ out' = [out EXCEPT ![p] = o]
    /\ Return(p, e)
    /\ UNCHANGED <<meta, lastFail>>

handle_recall(p) ==
    \E query \in RecallQueries, limit \in LimitArgs :
        LET res == search_sessions(query, Clamp(limit, RecallDefault, RecallCap))
        IN  /\ Ended(p, "recall", [query |-> query, limit |-> limit],
                     res.err, res.ret)
            /\ UNCHANGED store

handle_list_sessions(p) ==
    \E limit \in LimitArgs, date_from \in DateArgs, date_to \in DateArgs,
       tie \in {"asc", "desc"} :
        /\ Ended(p, "list_sessions",
                 [limit |-> limit, date_from |-> date_from, date_to |-> date_to],
                 "none",
                 [rows |-> list_sessions(Clamp(limit, ListDefault, ListCap),
                                         date_from, date_to, tie)])
        /\ UNCHANGED store

handle_log_note(p) ==
    \E n \in NoteArgs, now \in Seconds :
        LET res == SqlInsertNote(NoteRow(Len(notes) + 1, n.content, n.tags, now))
        IN  /\ Len(res.rows) <= MaxServerNotes
            /\ notes' = res.rows
            /\ shadowIdx' = res.idx
            /\ Ended(p, "log_note", n, res.err, [rows |-> <<>>])
            /\ UNCHANGED <<objects, versionRows, sessions, shadowGen, triggers>>

handle_search_notes(p) ==
    \E query \in NoteQueries, tag \in TagArgs, limit \in NoteLimits,
       tie \in {"asc", "desc"} :
        LET res == search_notes(query, tag, unwrap_or(limit, NotesDefault), tie)
        IN  /\ Ended(p, "search_notes",
                     [query |-> query, tag |-> tag, limit |-> limit],
                     res.err, [rows |-> res.rows])
            /\ UNCHANGED store

\* entries holds one entry per readable project; entries.truncate(limit).
handle_list_projects(p) ==
    \E limit \in LimitArgs, found \in ProjectCounts :
        /\ Ended(p, "list_projects", [limit |-> limit, found |-> found], "none",
                 [rows |-> Take([i \in 1..found |-> i],
                                Clamp(limit, ProjectsDefault, ProjectsCap))])
        /\ UNCHANGED store

\* ---- the stores a server works on: current schema, sessions ingested
StoreSizes == {0, 3, 51}

StartTimes ==
    << "2026-02-21T10:00:00Z", "2026-02-22T09:00:00Z", "unknown",
       "2026-02-21T10:30:00Z" >>

IngestedRow(i) ==
    SessionRow("s" \o ToString(i), StartTimes[(i % Len(StartTimes)) + 1],
               IF i % 2 = 0 THEN <<TextA>> ELSE <<TextAB>>, <<TextC>>)

ServerStore ==
    /\ objects = Range(BaseStmts)
    /\ versionRows = SetToBag({CURRENT_VERSION})
    /\ \E n \in StoreSizes : sessions = [i \in 1..n |-> IngestedRow(i)]
    /\ notes = <<>>
    /\ shadowGen = [t \in ShadowTables |-> "v1"]
    /\ shadowIdx = [t \in ShadowTables |->
            IF t = "sessions_fts"
            THEN SetToBag({<<i, IndexedText(t, sessions[i], "v1")>> :
                             i \in 1..Len(sessions)})
            ELSE EmptyBag]
    /\ triggers = [t \in TriggerNames |-> "v1"]

InitTools == ServerStore /\ InitProcs

\* ------------------------------------------------------- specifications
OpenStep(p) ==
    \/ CreateBase(p)
    \/ GetVersion(p)
    \/ DropTrigger(p)
    \/ DropShadowTable(p)
    \/ CreateShadowTable(p)
    \/ CreateTrigger(p)
    \/ Rebuild(p)
    \/ DeleteVersion(p)
    \/ InsertVersion(p)

\* Number of processes inside an operation.
Active == Cardinality({q \in Procs : pc[q] # "idle"})

\* Independent processes on one store, interleaved statement by statement.
Next ==
    \E p \in Procs :
        \/ StartOpen(p)
        \/ StartClaude(p)
        \/ OpenStep(p)
        \/ ClaudeCheck(p)
        \/ InsertSession(p)
        \/ Exit(p)

Spec == Init /\ [][Next]_vars

\* One invocation at a time, each running to its end.
NextSeq ==
    \E p \in Procs :
        \/ Active = 0 /\ StartOpen(p)
        \/ Active = 0 /\ StartClaude(p)
        \/ Active = 0 /\ StartCopilot(p)
        \/ Active = 0 /\ StartInsert(p)
        \/ Active = 0 /\ StartNote(p)
        \/ Active = 0 /\ StartSearch(p)
        \/ OpenStep(p)
        \/ ClaudeCheck(p)
        \/ CopilotCheck(p)
        \/ InsertSession(p)
        \/ InsertNote(p)
        \/ SearchExact(p)
        \/ SearchOr(p)
        \/ Exit(p)

SpecSeq == Init /\ [][NextSeq]_vars

\* One invocation at a time; an open call may stop after any statement.
NextRetry ==
    \E p \in Procs :
        \/ Active = 0 /\ StartOpen(p)
        \/ Active = 0 /\ StartInsert(p)
        \/ Active = 0 /\ StartNote(p)
        \/ OpenStep(p)
        \/ InsertSession(p)
        \/ InsertNote(p)
        \/ Interrupt(p)
        \/ Exit(p)

SpecRetry == Init /\ [][NextRetry]_vars

\* The pure functions of the query path and of the parsers, one call at a
\* time on inputs drawn from bounded sets.
NextFn ==
    \E p \in Procs :
        \/ Active = 0 /\ CallSanitize(p)
        \/ Active = 0 /\ CallBuildOrFallback(p)
        \/ Active = 0 /\ CallParse(p)
        \/ Active = 0 /\ CallParseCopilot(p)
        \/ SanitizeAgain(p)
        \/ Exit(p)

SpecFn == Init /\ [][NextFn]_vars

\* The tool calls of a server, one at a time.
NextTools ==
    \E p \in Procs :
        \/ Active = 0 /\ handle_recall(p)
        \/ Active = 0 /\ handle_list_sessions(p)
        \/ Active = 0 /\ handle_log_note(p)
        \/ Active = 0 /\ handle_search_notes(p)
        \/ Active = 0 /\ handle_list_projects(p)
        \/ Exit(p)

SpecTools == InitTools /\ [][NextTools]_vars

\* ====================================================== checked properties
\* The version a reader of schema_version observes (0 when it has no row).
StoredVersion ==
    IF BagToSet(versionRows) = {} THEN 0 ELSE Max(BagToSet(versionRows))

\* Both shadow tables and the six triggers of the current schema exist.
SchemaCurrent ==
    /\ \A t \in ShadowTables : shadowGen[t] = "v1"
    /\ \A t \in TriggerNames : triggers[t] = "v1"

\* Every base row has exactly one shadow entry, carrying its indexed text.
Indexed(tbl) ==
    LET rows == BaseRows(tbl)
    IN  /\ BagCardinality(shadowIdx[tbl]) = Len(rows)
        /\ \A i \in 1..Len(rows) :
             CopiesIn(<<i, IndexedText(tbl, rows[i], "v1")>>, shadowIdx[tbl]) = 1

IsPrefix(a, b) == Len(a) <= Len(b) /\ SubSeq(b, 1, Len(a)) = a

OpenErrors == {"exists", "no_such_table", "interrupted"}

Searched(p) == task[p] = "search" /\ pc[p] = "done"

\* C1: a search whose exact pass returned rows returns exactly those rows
\* with fallback = FALSE after a single fts_match call on the sanitized
\* query; fallback = TRUE only when the exact pass returned nothing and the
\* OR pass, run second, returned the rows of the result.
C1_ExactPassPreferred ==
    \A p \in Procs :
        Searched(p) =>
            LET calls == out[p].calls
                ret == out[p].ret
            IN  /\ calls[1].expr = arg[p].sanitized
                /\ calls[1].rows # <<>> =>
                       /\ Len(calls) = 1
                       /\ ret.rows = calls[1].rows
                       /\ ret.fallback = FALSE
                /\ ret.fallback = TRUE =>
                       /\ calls[1].rows = <<>>
                       /\ Len(calls) = 2
                       /\ calls[2].rows # <<>>
                       /\ ret.rows = calls[2].rows

\* A multi-term query without operators whose exact pass matched.
C1_Witness ==
    \E p \in Procs :
        /\ Searched(p)
        /\ build_or_fallback(arg[p].sanitized) # None
        /\ out[p].calls[1].rows # <<>>
        /\ out[p].ret.fallback = FALSE

\* C2: no step of an ingest whose session id is already stored changes the
\* rows of sessions (their number, order and contents).
C2_IngestIdempotent ==
    [][(\E p \in Procs : /\ task[p] \in IngestTasks
                         /\ pc[p] # "idle"
                         /\ meta[p].session_id \in StoredIds)
         => sessions' = sessions]_vars

\* An ingest found its session stored and returned.
C2_Witness ==
    \E p \in Procs :
        /\ task[p] \in IngestTasks
        /\ pc[p] = "done"
        /\ out[p] = "already_ingested"
        /\ meta[p].session_id \in StoredIds \/ arg[p] \in StoredIds

\* C3: no ingest ends with the uniqueness constraint of sessions.id hit.
C3_SilentNoOp ==
    \A p \in Procs : task[p] \in IngestTasks => err[p] # "unique"

\* C4: a step of an open call on a store whose version is current changes
\* nothing in the store, enters no migration or version-rewrite step and
\* does not fail; and whenever an open call has returned the connection the
\* version table reads CURRENT_VERSION.
C4_OpenIdempotent ==
    /\ [](\A p \in Procs : pc[p] \in ConnPcs => StoredVersion = CURRENT_VERSION)
    /\ [][\A p \in Procs :
            (/\ pc[p] \in OpenPcs
             /\ <<pc[p], ix[p]>> # <<pc'[p], ix'[p]>>
             /\ StoredVersion = CURRENT_VERSION)
            => /\ store' = store
               /\ pc'[p] \notin {"migrate", "delver", "insver", "failed"}]_vars

\* A later open call is reading the version of an already migrated store.
C4_Witness ==
    \E p \in Procs :
        /\ pc[p] = "getver"
        /\ StoredVersion = CURRENT_VERSION
        /\ SchemaCurrent

\* C5: every open call of concurrent openers returns Ok, and once no opener
\* is running the store is at the current version with its shadow tables,
\* triggers and a complete index.
C5_ConcurrentOpenersSafe ==
    /\ \A p \in Procs : err[p] \notin OpenErrors
    /\ ((\A p \in Procs : pc[p] \notin OpenPcs) /\ (\E p \in Procs : pc[p] \in ConnPcs))
         => /\ StoredVersion = CURRENT_VERSION
            /\ SchemaCurrent
            /\ \A t \in ShadowTables : Indexed(t)

\* C6: a store whose version is current has both shadow tables and all six
\* triggers.
C6_NoHalfMigratedStore == StoredVersion = CURRENT_VERSION => SchemaCurrent

\* C7: an open call run after an interrupted one fails for no reason of its
\* own, and once it has returned the connection the version is current, the
\* shadow tables and triggers are those of the current schema and every
\* base row is indexed; no step removes or changes a base row.
C7_RetrySafe ==
    /\ [](\A p \in Procs : err[p] \notin {"exists", "no_such_table"})
    /\ [](\A p \in Procs :
            pc[p] \in ConnPcs =>
                /\ versionRows = SetToBag({CURRENT_VERSION})
                /\ SchemaCurrent
                /\ \A t \in ShadowTables : Indexed(t))
    /\ [][IsPrefix(sessions, sessions') /\ IsPrefix(notes, notes')]_vars

\* An open call completed on a store holding a row after the previous open
\* call was stopped between the DELETE and the INSERT of the version row.
C7_Witness ==
    \E p \in Procs :
        /\ lastFail = "insver"
        /\ task[p] = "open" /\ pc[p] = "done"
        /\ sessions # <<>>

\* C8: the observable schema version never decreases.
C8_VersionMonotonic == [][StoredVersion' >= StoredVersion]_vars

\* C9: schema_version holds at most one row.
C9_SingleVersionRow == BagCardinality(versionRows) <= 1

\* C10: on a store brought to the current version by completed open calls,
\* every row of sessions and of notes has exactly one shadow entry carrying
\* its indexed text, whether it was inserted before or after the migration.
C10_ShadowIndexConsistent ==
    ((\A p \in Procs : pc[p] \notin OpenPcs) /\ StoredVersion = CURRENT_VERSION)
        => \A t \in ShadowTables : Indexed(t)

\* A migrated store with a legacy row, a row inserted since, and a note.
C10_Witness ==
    /\ StoredVersion = CURRENT_VERSION
    /\ Len(sessions) = 2 /\ sessions[1] = LegacyRow
    /\ Len(notes) = 1
    /\ \E p \in Procs : pc[p] = "done" /\ task[p] \in IngestTasks \cup {"insert"}

\* C11: no step changes or removes a stored session row: every row keeps its
\* position and all its values, and the set of stored ids only grows.
C11_SessionsImmutable ==
    [][/\ IsPrefix(sessions, sessions')
       /\ StoredIds \subseteq {sessions'[i].id : i \in 1..Len(sessions')}]_vars

\* The legacy row is still stored, as inserted, after the migration, a later
\* insert and a search.
C11_Witness ==
    /\ StoredVersion = CURRENT_VERSION
    /\ Len(sessions) = 2 /\ sessions[1] = LegacyRow
    /\ \E p \in Procs : Searched(p) /\ out[p].ret.rows # <<>>

\* C12: an insert_session call with an id that is already stored returns the
\* uniqueness error and leaves sessions and the shadow indexes unchanged;
\* no two stored session rows share an id.
C12_DuplicateRejected ==
    /\ [](\A i, j \in 1..Len(sessions) : sessions[i].id = sessions[j].id => i = j)
    /\ [][\A p \in Procs :
            (/\ pc[p] = "insert" /\ pc'[p] # "insert"
             /\ meta'[p].session_id \in StoredIds)
            => /\ err'[p] = "unique"
               /\ pc'[p] = "failed"
               /\ sessions' = sessions
               /\ shadowIdx' = shadowIdx]_vars

\* An insert_session call was rejected for an id the store holds.
C12_Witness ==
    \E p \in Procs :
        /\ pc[p] = "failed" /\ err[p] = "unique"
        /\ meta[p].session_id \in StoredIds
        /\ Len(sessions) = 1

\* A search_sessions call that has returned, with success or with an error.
SearchEnded(p) == task[p] = "search" /\ pc[p] \in {"done", "failed"}

\* C13: a search whose exact pass returned zero rows, and whose OR pass
\* either was not applicable or also returned zero rows, returns success
\* with no rows and fallback = FALSE.
C13_EmptyIsSuccess ==
    \A p \in Procs :
        SearchEnded(p) =>
            LET calls == out[p].calls
                applicable == build_or_fallback(arg[p].sanitized) # None
            IN  (/\ calls[1].err = "none" /\ calls[1].rows = <<>>
                 /\ \/ ~applicable
                    \/ Len(calls) = 2 /\ calls[2].err = "none" /\ calls[2].rows = <<>>)
                => /\ pc[p] = "done" /\ err[p] = "none"
                   /\ out[p].ret = [rows |-> <<>>, fallback |-> FALSE]

\* Both passes ran on a store holding rows and neither matched.
C13_Witness ==
    \E p \in Procs :
        /\ Searched(p) /\ sessions # <<>> /\ arg[p].limit > 0
        /\ Len(out[p].calls) = 2
        /\ out[p].calls[2].rows = <<>>

\* The OR pass was not applicable and the exact pass matched nothing.
C13_WitnessNoFallback ==
    \E p \in Procs :
        /\ Searched(p) /\ sessions # <<>> /\ arg[p].limit > 0
        /\ Len(out[p].calls) = 1
        /\ out[p].calls[1].rows = <<>>

\* C14: no fts_match call of a search fails with a query-syntax error, the
\* sanitized query being a well-formed match expression for every raw query.
C14_SanitizedQuerySafe ==
    \A p \in Procs :
        SearchEnded(p) =>
            \A i \in 1..Len(out[p].calls) : out[p].calls[i].err # "fts_syntax"

\* Number of double quotes of a string.
Quotes(s) == Cardinality({i \in 1..Len(s) : s[i] = "\""})

Sanitized(p) == task[p] = "sanitize" /\ pc[p] = "done"

\* C15: sanitizing a sanitized query returns it unchanged, whether the
\* double quotes of the raw query are balanced or not.
C15_SanitizeIdempotent ==
    \A p \in Procs : Sanitized(p) => out[p].again = out[p].sanitized

\* A query with an unclosed quote that the first pass changed.
C15_Witness ==
    \E p \in Procs :
        /\ Sanitized(p)
        /\ Quotes(arg[p]) = 1
        /\ out[p].sanitized # arg[p]
        /\ Len(out[p].sanitized) > 2

\* The texts between an opening double quote and the quote closing it, in
\* order; a last quote left open starts no phrase.
QuotedPhrases(s) ==
    LET qs == {i \in 1..Len(s) : s[i] = "\""}
        nth(k) == CHOOSE i \in qs : Cardinality({j \in qs : j < i}) = k - 1
    IN  [k \in 1..(Cardinality(qs) \div 2) |->
            SubSeq(s, nth(2 * k - 1) + 1, nth(2 * k) - 1)]

\* C16: the sanitized query has the double quotes of the raw query and,
\* between each opening quote and its closing quote, the same characters.
C16_QuotedPhrasesVerbatim ==
    \A p \in Procs :
        Sanitized(p) =>
            /\ Quotes(out[p].sanitized) = Quotes(arg[p])
            /\ QuotedPhrases(out[p].sanitized) = QuotedPhrases(arg[p])

\* Characters a term is made of outside quoted phrases.
TermChar(c) == is_alphanumeric(c) \/ c = "_"

\* The maximal runs of characters of s that satisfy In, in order.
Runs(s, In(_)) ==
    LET starts == {i \in 1..Len(s) : In(s[i]) /\ (i = 1 \/ ~In(s[i - 1]))}
        nth(k) == CHOOSE i \in starts : Cardinality({j \in starts : j < i}) = k - 1
        end(i) == CHOOSE j \in i..Len(s) :
                      /\ \A k \in i..j : In(s[k])
                      /\ j = Len(s) \/ ~In(s[j + 1])
    IN  [k \in 1..Cardinality(starts) |-> SubSeq(s, nth(k), end(nth(k)))]

TermRuns(s) == Runs(s, TermChar)

RECURSIVE Flatten(_)
Flatten(ss) == IF ss = <<>> THEN <<>> ELSE Head(ss) \o Flatten(Tail(ss))

\* The words separated by sep.
Joined(words, sep) ==
    Flatten([k \in 1..(2 * Len(words) - 1) |->
                IF k % 2 = 1 THEN words[(k + 1) \div 2] ELSE sep])

\* Positions of s outside quoted phrases (an even number of quotes before
\* them) that hold no quote.
Outside(s) ==
    {i \in 1..Len(s) :
        /\ s[i] # "\""
        /\ Cardinality({j \in 1..(i - 1) : s[j] = "\""}) % 2 = 0}

\* C17: outside quoted phrases the sanitized query holds only alphanumerics,
\* underscores and single spaces; it has no leading or trailing whitespace;
\* for a query without quotes it is the runs of term characters of the raw
\* query joined by single spaces, so every other character separates terms
\* and a query of terms with single spaces comes back unchanged.
C17_OutsideQuotesClean ==
    /\ sanitize_fts_query(
         <<"c", "l", "a", "u", "d", "e", "-", "m", "e", "m", "o", "r",
         "y", " ", "i", "n", "s", "t", "a", "l", "l">>)
         = <<"c", "l", "a", "u", "d", "e", " ", "m", "e", "m", "o", "r",
           "y", " ", "i", "n", "s", "t", "a", "l", "l">>
    /\ sanitize_fts_query(
         <<"(", "f", "o", "o", "*", ")", " ", "A", "N", "D", " ", "b",
         "a", "r">>)
         = <<"f", "o", "o", " ", "A", "N", "D", " ", "b", "a", "r">>
    /\ \A p \in Procs :
          Sanitized(p) =>
            LET q == arg[p]
                o == out[p].sanitized
            IN  /\ \A i \in Outside(o) : TermChar(o[i]) \/ o[i] = " "
                /\ \A i \in Outside(o) : o[i] = " " => (i < Len(o) /\ o[i + 1] # " ")
                /\ o # <<>> => ~is_whitespace(o[1]) /\ ~is_whitespace(o[Len(o)])
                /\ Quotes(q) = 0 => o = Joined(TermRuns(q), <<" ">>)
                /\ (/\ Quotes(q) = 0
                    /\ \A i \in 1..Len(q) : TermChar(q[i]) \/ q[i] = " "
                    /\ \A i \in 1..Len(q) :
                         q[i] = " " => i > 1 /\ i < Len(q) /\ q[i + 1] # " ")
                   => o = q

\* A query without quotes in which a special character separated two terms.
C17_Witness ==
    \E p \in Procs :
        /\ Sanitized(p)
        /\ Quotes(arg[p]) = 0
        /\ \E i \in 2..(Len(arg[p]) - 1) :
             /\ arg[p][i] = "-"
             /\ TermChar(arg[p][i - 1]) /\ TermChar(arg[p][i + 1])
        /\ Len(TermRuns(out[p].sanitized)) = 2

NonSpace(c) == ~is_whitespace(c)

\* The whitespace-separated terms of a query.
TermsOf(q) == Runs(q, NonSpace)

FallbackBuilt(p) == task[p] = "or_fallback" /\ pc[p] = "done"

\* C18: build_or_fallback returns none exactly when a whitespace-separated
\* token of the query is AND, OR, NOT or NEAR or the query has fewer than
\* two terms; otherwise it returns the terms, in order, joined by " OR ".
C18_OrFallbackBuilt ==
    /\ build_or_fallback(
         <<"i", "n", "s", "t", "a", "l", "l", " ", "M", "C", "P", " ",
         "s", "e", "r", "v", "e", "r">>)
         = Some(<<"i", "n", "s", "t", "a", "l", "l", " ", "O", "R", " ", "M",
                "C", "P", " ", "O", "R", " ", "s", "e", "r", "v", "e", "r">>)
    /\ \A p \in Procs :
          FallbackBuilt(p) =>
            LET terms == TermsOf(arg[p])
                operator == \E k \in 1..Len(terms) :
                               terms[k] \in {<<"A", "N", "D">>, <<"O", "R">>,
                                             <<"N", "O", "T">>, <<"N", "E", "A", "R">>}
            IN  /\ out[p] = None <=> (operator \/ Len(terms) < 2)
                /\ out[p] # None =>
                      out[p] = Some(Joined(terms, <<" ", "O", "R", " ">>))

\* Three terms separated by irregular whitespace were joined.
C18_Witness ==
    \E p \in Procs :
        /\ FallbackBuilt(p)
        /\ out[p] # None
        /\ Len(TermsOf(arg[p])) = 3
        /\ \E i \in 1..Len(arg[p]) : arg[p][i] = "\t"

\* A query with the token NEAR gets no fallback.
C18_WitnessNear ==
    \E p \in Procs :
        /\ FallbackBuilt(p)
        /\ out[p] = None
        /\ Len(TermsOf(arg[p])) = 3
        /\ \E k \in 1..3 : TermsOf(arg[p])[k] = OpNEAR

Parsed(p) == task[p] = "parse" /\ pc[p] = "done"

\* The lines that decode as JSON.
Decoded(lines) == SelectSeq(lines, LAMBDA l : l.kind = "json")

\* C19: parse_transcript returns a metadata record for every sequence of
\* lines, and it is the record the decodable lines alone would give.
C19_AnomaliesNeverAbort ==
    \A p \in Procs :
        Parsed(p) =>
            /\ out[p].err = "none"
            /\ out[p].meta = parse_transcript(Decoded(arg[p])).meta

\* The first non-empty value the decoded lines carry under key, or "".
FirstNonEmpty(lines, key) ==
    LET evs == Decoded(lines)
        carrying == {i \in 1..Len(evs) : evs[i].ev[key] \notin {NoVal, ""}}
    IN  IF carrying = {} THEN ""
        ELSE evs[CHOOSE i \in carrying : \A j \in carrying : i <= j].ev[key]

\* C20: in the metadata of a completed parse, session id, project directory
\* and git branch are each the first non-empty value of their key in
\* stream order.
C20_FirstWriteWins ==
    \A p \in Procs :
        (Parsed(p) /\ out[p].err = "none") =>
            LET m == out[p].meta
                branch == IF m.git_branch = None THEN "" ELSE m.git_branch[1]
            IN  /\ m.session_id = FirstNonEmpty(arg[p], "sessionId")
                /\ m.project_dir = FirstNonEmpty(arg[p], "cwd")
                /\ branch = FirstNonEmpty(arg[p], "gitBranch")

\* ------------------------------------------------ extraction rules
ParsedCopilot(p) == task[p] = "parse_copilot" /\ pc[p] = "done"

\* Every line of the file can be read.
Readable(lines) == \A i \in 1..Len(lines) : lines[i].kind # "invalid_utf8"

\* A text that is non-empty and does not begin with '<'.
Acceptable(text) == text # <<>> /\ text[1] # "<"

\* The texts a user turn carries outside tool-result blocks.
TurnTexts(ev) ==
    IF ev.content = None THEN {}
    ELSE IF Len(ev.content) = 1 THEN {ev.content[1]}
    ELSE {ev.content[2][i].text[1] :
            i \in {j \in 1..Len(ev.content[2]) :
                     /\ ev.content[2][j].type # "tool_result"
                     /\ ev.content[2][j].text # None}}

\* The user turns with acceptable content, in event order.
PromptTurns(lines) ==
    SelectSeq(Decoded(lines),
              LAMBDA l : l.ev.type = "user"
                           /\ \E t \in TurnTexts(l.ev) : Acceptable(t))

\* prompt is text, or a shortened text followed by the ellipsis.
ShortenedFrom(prompt, text) ==
    \/ prompt = text
    \/ /\ Len(prompt) > 3
       /\ Len(prompt) - 3 < Len(text)
       /\ SubSeq(prompt, Len(prompt) - 2, Len(prompt)) = <<".", ".", ".">>
       /\ SubSeq(prompt, 1, Len(prompt) - 3) = SubSeq(text, 1, Len(prompt) - 3)

\* C21: a transcript with N user turns of acceptable content (non-empty,
\* not starting with '<') yields exactly N prompts, the i-th taken from
\* the i-th such turn; nothing else contributes a prompt.
C21_OnePromptPerTurn ==
    \A p \in Procs :
        Parsed(p) /\ Readable(arg[p]) =>
            LET turns == PromptTurns(arg[p])
                prompts == out[p].meta.user_prompts
            IN  /\ out[p].err = "none"
                /\ Len(prompts) = Len(turns)
                /\ \A i \in 1..Len(prompts) :
                      \E t \in TurnTexts(turns[i].ev) : ShortenedFrom(prompts[i], t)

\* The truncation policy in characters: texts of at most max_len characters
\* unchanged, longer ones cut to max_len characters plus the ellipsis.
Shortened(text, max_len) ==
    IF Len(text) <= max_len THEN text
    ELSE SubSeq(text, 1, max_len) \o <<".", ".", ".">>

\* The texts the streaming parser accepts as prompts, in order.
RECURSIVE AcceptedTexts(_)
AcceptedTexts(lines) ==
    IF lines = <<>> THEN <<>>
    ELSE (IF Head(lines).kind = "json" /\ Head(lines).ev.type = "user"
          THEN PromptTexts(Head(lines).ev) ELSE <<>>)
         \o AcceptedTexts(Tail(lines))

\* The contents the snapshot parser accepts as prompts, in order.
AcceptedTurns(doc) ==
    SelectSeq(doc.turns, LAMBDA t : t.role = "user" /\ trim(t.content) # <<>>)

\* C22: both parsers store a prompt of at most 2000 characters unchanged
\* and a longer one as its first 2000 characters plus "...", whatever the
\* characters are, and the parse is never aborted by the truncation.
C22_TruncationPolicy ==
    \A p \in Procs :
        /\ Parsed(p) /\ Readable(arg[p]) =>
              LET texts == AcceptedTexts(arg[p])
              IN  /\ out[p].err = "none"
                  /\ out[p].meta.user_prompts =
                        [i \in 1..Len(texts) |-> Shortened(texts[i], MAX_PROMPT_LEN)]
        /\ ParsedCopilot(p) =>
              LET turns == AcceptedTurns(arg[p])
              IN  /\ out[p].err = "none"
                  /\ out[p].meta.user_prompts =
                        [i \in 1..Len(turns) |->
                            Shortened(turns[i].content, MAX_PROMPT_LEN)]

\* The commands of the Bash invocations of a transcript, in order.
RECURSIVE BashCommands(_)
BashCommands(lines) ==
    IF lines = <<>> THEN <<>>
    ELSE LET l == Head(lines)
             items == IF l.kind = "json" /\ l.ev.type = "assistant"
                      THEN SelectSeq(ToolItems(l.ev),
                                     LAMBDA it : it.name = "Bash" /\ it.input # None)
                      ELSE <<>>
         IN  [i \in 1..Len(items) |-> items[i].input[1]] \o BashCommands(Tail(lines))

\* The position of the first command that entry stands for.
FirstRun(entry, cmds) ==
    LET at == {k \in 1..Len(cmds) : ShortenedFrom(entry, cmds[k])}
    IN  IF at = {} THEN 0 ELSE CHOOSE k \in at : \A j \in at : k <= j

\* C23: commands_run has at most 50 entries, no entry twice, the entries in
\* the order in which their commands first ran, each at most 200 characters.
C23_CommandsBounded ==
    \A p \in Procs :
        Parsed(p) /\ out[p].err = "none" =>
            LET run == out[p].meta.commands_run
                cmds == BashCommands(arg[p])
            IN  /\ Len(run) <= 50
                /\ \A i, j \in 1..Len(run) : run[i] = run[j] => i = j
                /\ \A i \in 1..Len(run) : FirstRun(run[i], cmds) # 0
                /\ \A i, j \in 1..Len(run) :
                      i < j => FirstRun(run[i], cmds) < FirstRun(run[j], cmds)
                /\ \A i \in 1..Len(run) : Len(run[i]) <= 200

\* The timestamp values of the decoded events, in order.
StampsOf(lines) ==
    LET stamped == SelectSeq(Decoded(lines), LAMBDA l : l.ev.timestamp # NoVal)
    IN  [i \in 1..Len(stamped) |-> stamped[i].ev.timestamp]

\* C24: first_timestamp and last_timestamp are the values of the first and
\* the last event that has a timestamp; duration_seconds is last - first in
\* whole seconds when both parse as RFC 3339, and unset otherwise, the
\* parse returning its record all the same.
C24_TimestampsAndDuration ==
    \A p \in Procs :
        Parsed(p) /\ Readable(arg[p]) /\ out[p].err # "panic" =>
            LET m == out[p].meta
                ts == StampsOf(arg[p])
                both == ts # <<>> /\ ts[1] \in DOMAIN Rfc3339
                            /\ ts[Len(ts)] \in DOMAIN Rfc3339
            IN  /\ out[p].err = "none"
                /\ m.first_timestamp = (IF ts = <<>> THEN None ELSE Some(ts[1]))
                /\ m.last_timestamp = (IF ts = <<>> THEN None ELSE Some(ts[Len(ts)]))
                /\ both =>
                      /\ m.duration_seconds # None
                      /\ LET diff == Rfc3339[ts[Len(ts)]] - Rfc3339[ts[1]]
                             d == m.duration_seconds[1] * 1000
                         IN  /\ d - diff < 1000 /\ diff - d < 1000
                             /\ diff >= 0 => d <= diff
                             /\ diff <= 0 => d >= diff
                /\ ~both => m.duration_seconds = None

\* The documented fixture: 10:00:00Z then 10:30:00Z gives 1800 seconds.
C24_Witness ==
    \E p \in Procs :
        /\ Parsed(p)
        /\ StampsOf(arg[p]) = <<"2026-02-21T10:00:00Z", "2026-02-21T10:30:00Z">>
        /\ out[p].meta.duration_seconds = Some(1800)

\* A first timestamp that does not parse leaves the duration unset.
C24_WitnessUnset ==
    \E p \in Procs :
        /\ Parsed(p)
        /\ out[p].err = "none"
        /\ out[p].meta.first_timestamp = Some("yesterday")
        /\ out[p].meta.last_timestamp = Some("2026-02-21T10:30:00Z")
        /\ out[p].meta.duration_seconds = None

\* The positions at which pat occurs in s.
Occurrences(s, pat) ==
    {i \in 1..(Len(s) - Len(pat) + 1) : SubSeq(s, i, i + Len(pat) - 1) = pat}

\* The text after the first occurrence of pat, without the white space
\* around it; s must contain pat.
Remainder(s, pat) ==
    LET at == CHOOSE i \in Occurrences(s, pat) : \A j \in Occurrences(s, pat) : i <= j
        rest == SubSeq(s, at + Len(pat), Len(s))
        ink == {i \in 1..Len(rest) : rest[i] \notin {" ", "\t"}}
    IN  IF ink = {} THEN <<>>
        ELSE SubSeq(rest, CHOOSE i \in ink : \A j \in ink : i <= j,
                          CHOOSE i \in ink : \A j \in ink : i >= j)

\* msg (None or Some(text)) is what the extraction rule allows for cmd:
\* nothing without "-m "; the contents of the quoted string that follows;
\* else the first 100 characters of the remainder.
CommitRule(cmd, msg) ==
    LET flag == <<"-", "m", " ">>
    IN  IF Occurrences(cmd, flag) = {} THEN msg = None
        ELSE LET rest == Remainder(cmd, flag)
                 closing == {i \in 2..Len(rest) : rest[i] = rest[1]}
             IN  IF rest # <<>> /\ rest[1] \in {"'", "\""}
                 THEN closing # {} =>
                        \E e \in closing :
                            /\ \A j \in closing : e <= j
                            /\ msg = Some(SubSeq(rest, 2, e - 1))
                 ELSE msg = Some(IF Len(rest) <= 100 THEN rest
                                 ELSE SubSeq(rest, 1, 100))

\* C25: for a transcript whose only tool invocation is one Bash command
\* with "git commit" in it, the recorded commit message is the contents of
\* the quoted string after "-m ", or the first 100 characters of the
\* remainder when no quote follows, and there is none without "-m ".
C25_CommitMessage ==
    \A p \in Procs :
        Parsed(p) /\ out[p].err = "none" /\ Len(BashCommands(arg[p])) = 1
            /\ Occurrences(BashCommands(arg[p])[1], <<"g", "i", "t", " ", "c", "o", "m", "m", "i", "t">>) # {} =>
            LET commits == out[p].meta.git_commits
            IN  /\ Len(commits) <= 1
                /\ CommitRule(BashCommands(arg[p])[1],
                              IF commits = <<>> THEN None ELSE Some(commits[1]))

\* C26: parse_copilot_json returns one prompt for each user turn whose
\* trimmed text is non-empty, in order, and none for other turns; it
\* records no files, tools, commands, commits or tokens; a document
\* without a session id gets a non-empty identifier no other parse got.
C26_SnapshotParse ==
    \A p \in Procs :
        ParsedCopilot(p) =>
            LET m == out[p].meta
                turns == SelectSeq(arg[p].turns,
                            LAMBDA t : t.role = "user"
                                /\ \E i \in 1..Len(t.content) :
                                      t.content[i] \notin {" ", "\t"})
            IN  /\ out[p].err = "none"
                /\ Len(m.user_prompts) = Len(turns)
                /\ \A i \in 1..Len(turns) :
                      ShortenedFrom(m.user_prompts[i], turns[i].content)
                /\ m.files_modified = {} /\ m.files_read = {}
                /\ m.commands_run = <<>> /\ m.git_commits = <<>>
                /\ m.tool_counts = EmptyBag
                /\ m.total_input_tokens = 0 /\ m.total_output_tokens = 0
                /\ arg[p].session_id # NoVal => m.session_id = arg[p].session_id
                /\ arg[p].session_id = NoVal =>
                      /\ m.session_id \notin {"", NoVal}
                      /\ \A q \in Procs \ {p} :
                            ParsedCopilot(q) /\ out[q].err = "none" =>
                                out[q].meta.session_id # m.session_id

\* ----------------------------------------------------------- server tools
Listed(p) == task[p] = "list_sessions" /\ pc[p] = "done"

\* How often a row occurs in a sequence of rows.
Count(rows, r) == Cardinality({i \in 1..Len(rows) : rows[i] = r})

\* The rows list_sessions returned to p are stored rows inside the date
\* range asked for, each at most once, newest first, at most limit of them,
\* and no row left out is newer than a returned one.
ListedRight(p) ==
    LET rows == out[p].rows
        from == arg[p].date_from
        to == arg[p].date_to
        Fits(at) == /\ from # None => Place(from[1]) <= Place(at)
                    /\ to # None => Place(at) <= Place(to[1])
    IN  /\ \A i \in 1..Len(rows) :
              /\ rows[i] \in Range(sessions)
              /\ Fits(rows[i].started_at)
              /\ Count(rows, rows[i]) = 1
        /\ \A i \in 1..(Len(rows) - 1) :
              Place(rows[i].started_at) >= Place(rows[i + 1].started_at)
        /\ arg[p].limit # None => Len(rows) <= arg[p].limit[1]
        /\ \A r \in Range(sessions) \ Range(rows) :
              Fits(r.started_at) /\ Len(rows) > 0 =>
                  Place(r.started_at) <= Place(rows[Len(rows)].started_at)

\* C27: list_sessions returns only sessions with date_from <= started_at
\* <= date_to (each bound when supplied, inclusive), newest first, at most
\* limit rows, and leaves the store as it was.
C27_ListFiltered ==
    [][\A p \in Procs :
          pc[p] = "idle" /\ Listed(p)' => ListedRight(p)' /\ store' = store]_vars

\* A listing whose lower bound equals the started_at of a returned row and
\* whose limit left matching rows out.
C27_Witness ==
    \E p \in Procs :
        /\ Listed(p)
        /\ arg[p].date_from = Some("2026-02-21T10:30:00Z")
        /\ arg[p].date_to = Some("2026-02-22")
        /\ arg[p].limit = Some(2)
        /\ Len(out[p].rows) = 2
        /\ out[p].rows[1].started_at = "2026-02-21T10:30:00Z"
        /\ Cardinality({i \in 1..Len(sessions) :
                          sessions[i].started_at = "2026-02-21T10:30:00Z"}) > 2

ToolDone(p, t) == task[p] = t /\ pc[p] = "done"

\* The tool returned at most cap rows, and at most limit when one is given.
Capped(p, cap) ==
    /\ Len(out[p].rows) <= cap
    /\ arg[p].limit # None => Len(out[p].rows) <= arg[p].limit[1]

\* C28: recall returns at most 20 sessions, list_sessions at most 50 and
\* list_projects at most 50 projects, and none more than the limit asked
\* for, whether the limit is absent, zero or arbitrarily large.
C28_LimitsCapped ==
    \A p \in Procs :
        /\ ToolDone(p, "recall") => Capped(p, 20)
        /\ ToolDone(p, "list_sessions") => Capped(p, 50)
        /\ ToolDone(p, "list_projects") => Capped(p, 50)

\* A recall with a huge limit over a store where more than 20 sessions
\* match returns exactly 20.
C28_Witness ==
    \E p \in Procs :
        /\ ToolDone(p, "recall")
        /\ arg[p].limit = Some(LargeLimit)
        /\ arg[p].query = <<"a">>
        /\ Len(sessions) > 20
        /\ Len(out[p].rows) = 20

\* list_sessions without a limit returns its default of 10 rows.
C28_WitnessDefault ==
    \E p \in Procs :
        /\ ToolDone(p, "list_sessions")
        /\ arg[p].limit = None /\ arg[p].date_from = None /\ arg[p].date_to = None
        /\ Len(sessions) > 10
        /\ Len(out[p].rows) = 10

\* list_projects with a limit above its cap returns 50 of 51 projects.
C28_WitnessProjects ==
    \E p \in Procs :
        /\ ToolDone(p, "list_projects")
        /\ arg[p].limit = Some(51) /\ arg[p].found = 51
        /\ Len(out[p].rows) = 50

\* An ingest of session sid by p has ended after its existence check on
\* sid: either the check found sid stored, or the transcript carried sid
\* and prompts and insert_session was called, ending with success or with
\* the uniqueness constraint of sessions.id.
IngestEnded(p, sid) ==
    /\ task[p] = "ingest_claude" /\ pc[p] \in {"done", "failed"}
    /\ arg[p] = sid
    /\ err[p] \in {"none", "unique"}
    /\ \/ out[p] = "already_ingested"
       \/ meta[p].session_id = sid /\ meta[p].user_prompts # <<>>

\* C29: when two ingest processes handling the same session id on one
\* store have both ended, in whatever order their existence checks and
\* inserts ran, the store holds exactly one row for that id and both
\* processes returned success.
C29_ConcurrentIngest ==
    \A p, q \in Procs : \A sid \in SessionIds :
        p # q /\ IngestEnded(p, sid) /\ IngestEnded(q, sid) =>
            /\ err[p] = "none" /\ err[q] = "none"
            /\ Cardinality({i \in 1..Len(sessions) : sessions[i].id = sid}) = 1

\* The stored notes that match the query of p's search (all of them when
\* it has none).
QueryHits(p) ==
    IF arg[p].query = None THEN Range(notes)
    ELSE LET hits == MatchingNotes(Lex(sanitize_fts_query(arg[p].query[1]), <<>>).toks)
         IN  {notes[hits[k]] : k \in 1..Len(hits)}

\* C30: when search_notes is given a tag, with or without a query, every
\* note it returns has exactly that tag, and every stored note with the
\* tag (that matches the query, if any) is returned unless the limit is
\* reached.
C30_TagFilter ==
    \A p \in Procs :
        ToolDone(p, "search_notes") /\ arg[p].tag # None =>
            LET rows == out[p].rows
                limit == IF arg[p].limit = None THEN NotesDefault ELSE arg[p].limit[1]
            IN  /\ \A i \in 1..Len(rows) : arg[p].tag[1] \in Range(rows[i].tags)
                /\ Len(rows) < limit =>
                      \A n \in QueryHits(p) :
                          arg[p].tag[1] \in Range(n.tags) => n \in Range(rows)
====
